---- MODULE Spec2Model ----
(***************************************************************************)
(* Model of the dashboard API smoke-test harness:                          *)
(*   scripts/enhanced_api_smoke_test.py  (EnhancedAPITester, MediaIDFetcher,*)
(*                                        HTTPClient, ResponseValidator,   *)
(*                                        EnhancedOpenAPIFetcher)          *)
(*   scripts/analyze_results.py          (IssueAnalyzer)                   *)
(*   scripts/api_smoke_test.py           (fetch_endpoint, run_tests)       *)
(*   main of both runners                (dev server start and stop, exit) *)
(*                                                                         *)
(* Strings are sequences of tokens: a URL path is the sequence of its      *)
(* '/'-separated segments, a message is the sequence of its words.         *)
(* An Optional value is a sequence of length <= 1: None is <<>> and a      *)
(* present value x is <<x>>.                                               *)
(***************************************************************************)
EXTENDS Integers, Sequences, FiniteSets, TLC

VARIABLES
    safe_mode,          \* EnhancedAPITester.safe_mode
    endpoint_configs,   \* EnhancedAPITester.endpoint_configs (the catalog)
    id_cache,           \* MediaIDFetcher.id_cache: service -> Optional id
    fut,                \* the futures of run_all_tests, one per catalog case
    test_results,       \* EnhancedAPITester.test_results
    requests,           \* calls made to HTTPClient.request
    phase,              \* "running" | "returned" (run_all_tests)
    analyzer_results,   \* IssueAnalyzer.test_results (the loaded report)
    issues,             \* IssueAnalyzer.issues
    analyzer_pc,        \* "ready" | "returned" | "raised" (last analyze_results call)
    analyze_calls,      \* number of analyze_results calls on this analyzer
    analyze_returns,    \* the list each analyze_results call returned, as it was then
    config_file,        \* EnhancedAPITester.config_file and what its path holds
    use_openapi,        \* EnhancedAPITester.use_openapi
    loader_pc,          \* "start" | "discovering" | "loaded" | "raised" (load_endpoint_configs)
    mixed_configs,      \* the list get_mixed_endpoint_configs builds
    discovery,          \* the rounds of its loop: service, response, cases added
    smoke_base,         \* api_smoke_test.run_tests: base, as urlparse splits it
    smoke_endpoints,    \* run_tests: endpoints
    unique_endpoints,   \* run_tests: unique_endpoints
    smoke_futures,      \* run_tests: futures, one per unique endpoint
    smoke_results,      \* run_tests: results
    smoke_pc,           \* "idle" | "start" | "running" | "returned" (run_tests)
    runner,             \* which script's main runs
    args,               \* main: the parsed arguments and what the files they name hold
    main_pc,            \* main: the place of control
    processes,          \* the dev server the harness starts and a server started outside
    proc,               \* main: proc
    server_started,     \* main: server_started
    main_results,       \* main: results
    raised,             \* main: an exception is propagating
    exit_code           \* the exit status of the script, None while it runs

runner_vars == <<safe_mode, endpoint_configs, id_cache, fut, test_results, requests, phase>>
triage_vars == <<analyzer_results, issues, analyzer_pc, analyze_calls, analyze_returns>>
vars == <<safe_mode, endpoint_configs, id_cache, fut, test_results, requests, phase,
          analyzer_results, issues, analyzer_pc, analyze_calls, analyze_returns,
          config_file, use_openapi, loader_pc, mixed_configs, discovery,
          smoke_base, smoke_endpoints, unique_endpoints, smoke_futures, smoke_results,
          smoke_pc, runner, args, main_pc, processes, proc, server_started, main_results,
          raised, exit_code>>
catalog_vars == <<config_file, use_openapi, loader_pc, mixed_configs, discovery>>
smoke_vars == <<smoke_base, smoke_endpoints, unique_endpoints, smoke_futures, smoke_results,
                smoke_pc>>
main_vars == <<runner, args, main_pc, processes, proc, server_started, main_results, raised,
               exit_code>>

----------------------------------------------------------------------------
(* Bounds of the model *)

MaxCases == 2           \* longest catalog explored
Concurrency == 2        \* max_workers of the thread pool (--concurrency)
MaxOutcomes == 2        \* longest report handed to the analyzer
MaxAnalyzeCalls == 2    \* analyze_results calls explored on one analyzer

----------------------------------------------------------------------------
(* Generic helpers *)

None == <<>>
Some(x) == <<x>>

Min(S) == CHOOSE x \in S : \A y \in S : x <= y

RECURSIVE SeqsUpTo(_, _)
SeqsUpTo(S, n) ==
    IF n = 0 THEN {<<>>}
    ELSE LET shorter == SeqsUpTo(S, n - 1)
         IN shorter \cup {Append(s, x) : s \in {t \in shorter : Len(t) = n - 1}, x \in S}

\* Python's list.sort(key=...) is stable: an element goes after every element
\* with a smaller key and after the earlier elements with an equal key.
\* keys[i] is the key of s[i].
StableRank(keys, i) ==
    1 + Cardinality({j \in 1..Len(keys) :
                        keys[j] < keys[i] \/ (keys[j] = keys[i] /\ j < i)})

StableSortByKeys(s, keys) ==
    [p \in 1..Len(s) |-> s[CHOOSE i \in 1..Len(s) : StableRank(keys, i) = p]]

----------------------------------------------------------------------------
(* The catalog: EndpointConfig values *)

\* EndpointConfig. path_params is the dict in insertion order, a sequence of
\* [key, value]; query_ok is FALSE for a query_params value that
\* urllib.parse.urlencode rejects (a bare string loaded from a catalog file).
EndpointConfig(name, path, method, destructive, mode, path_params, query_ok) ==
    [name |-> name, path |-> path, method |-> method, destructive |-> destructive,
     safe_mode |-> mode, path_params |-> path_params, query_ok |-> query_ok,
     expected_status |-> 200]

\* Cases of get_default_endpoint_configs ...
GetSonarrSeries ==
    EndpointConfig("Get Sonarr Series", <<"api", "sonarr", "series">>, "GET",
                   FALSE, "mock", <<>>, TRUE)
GetSabQueueItem ==
    EndpointConfig("Get SABnzbd Queue Item", <<"api", "sabnzbd", "queue", "{nzoId}">>, "GET",
                   FALSE, "mock", <<[key |-> "nzoId", value |-> "test_nzo_123"]>>, TRUE)
\* Mutant of DeleteSabQueueItem: the case is not flagged destructive.
DeleteSabQueueItem_NotFlagged ==
    EndpointConfig("Delete SABnzbd Queue Item", <<"api", "sabnzbd", "queue", "{nzoId}">>,
                   "DELETE", FALSE, "mock", <<[key |-> "nzoId", value |-> "test_nzo_123"]>>, TRUE)
DeleteSabQueueItem ==
    EndpointConfig("Delete SABnzbd Queue Item", <<"api", "sabnzbd", "queue", "{nzoId}">>,
                   "DELETE", TRUE, "mock", <<[key |-> "nzoId", value |-> "test_nzo_123"]>>, TRUE)
ResumeSabQueue ==
    EndpointConfig("Resume SABnzbd Queue", <<"api", "sabnzbd", "queue", "resume">>, "POST",
                   TRUE, "mock", <<>>, TRUE)
ExecuteSonarrCommand ==
    EndpointConfig("Execute Sonarr Command", <<"api", "sonarr", "command">>, "POST",
                   TRUE, "mock", <<>>, TRUE)
\* ... and cases only an explicit catalog file (load_endpoint_configs) can carry.
RemoveRadarrMovie ==
    EndpointConfig("Remove Radarr Movie", <<"api", "radarr", "movies", "{id}">>, "DELETE",
                   TRUE, "skip", <<[key |-> "id", value |-> "7"]>>, TRUE)
PauseSabQueue ==
    EndpointConfig("Pause SABnzbd Queue", <<"api", "sabnzbd", "queue", "pause">>, "POST",
                   TRUE, "allow", <<>>, TRUE)
LookupSonarrSeries ==
    EndpointConfig("Lookup Sonarr Series", <<"api", "sonarr", "series", "lookup">>, "GET",
                   FALSE, "mock", <<>>, FALSE)

\* safe_mode is read from the file as it stands: any string gets through.
PurgeSabHistory ==
    EndpointConfig("Purge SABnzbd History", <<"api", "sabnzbd", "history", "purge">>, "POST",
                   TRUE, "block", <<>>, TRUE)

CasePool == {GetSonarrSeries, GetSabQueueItem, DeleteSabQueueItem,
             RemoveRadarrMovie, PauseSabQueue, LookupSonarrSeries, PurgeSabHistory}

\* Catalogs: the cases of a run have distinct names.
Catalogs ==
    {c \in SeqsUpTo(CasePool, MaxCases) :
        /\ Len(c) >= 1
        /\ \A i, j \in 1..Len(c) : i # j => c[i].name # c[j].name}

----------------------------------------------------------------------------
(* Paths, services, identifiers *)

ServiceOrder == <<"sabnzbd", "sonarr", "radarr", "prowlarr", "readarr", "readarr_audiobooks">>

ServiceSegment(service) ==
    IF service = "readarr_audiobooks" THEN "readarr-audiobooks" ELSE service

\* '/<service>/' in path: the segment occurs and is followed by a slash.
extract_service_from_path(path) ==
    LET hits == {k \in 1..Len(ServiceOrder) :
                    \E j \in 1..(Len(path) - 1) : path[j] = ServiceSegment(ServiceOrder[k])}
    IN IF hits = {} THEN "unknown" ELSE ServiceOrder[Min(hits)]

\* f"{{{key}}}"
Placeholder(key) ==
    CASE key = "id" -> "{id}"
      [] key = "nzoId" -> "{nzoId}"
      [] OTHER -> "{?}"

\* str.replace(old, new) on a path: every occurrence of the placeholder segment.
Replace(path, old, new) ==
    [j \in 1..Len(path) |-> IF path[j] = old THEN new ELSE path[j]]

\* value.startswith('test_')
StartsWithTest(value) ==
    value \in {"test_nzo_123", "test_series_123", "test_movie_123", "test_app_123",
               "test_author_123", "test_id_123"}

\* fallback_ids.get(service, 'test_id_123')
FallbackId(service) ==
    CASE service = "sabnzbd" -> "test_nzo_123"
      [] service = "sonarr" -> "test_series_123"
      [] service = "radarr" -> "test_movie_123"
      [] service = "prowlarr" -> "test_app_123"
      [] service = "readarr" -> "test_author_123"
      [] service = "readarr_audiobooks" -> "test_author_123"
      [] OTHER -> "test_id_123"

\* the endpoints dict of _fetch_real_id; None when the service has no mapping
FetchEndpoint(service) ==
    CASE service = "sabnzbd" -> Some(<<"api", "sabnzbd", "queue">>)
      [] service = "sonarr" -> Some(<<"api", "sonarr", "series">>)
      [] service = "radarr" -> Some(<<"api", "radarr", "movies">>)
      [] service = "prowlarr" -> Some(<<"api", "prowlarr", "applications">>)
      [] service = "readarr" -> Some(<<"api", "readarr", "author">>)
      [] service = "readarr_audiobooks" -> Some(<<"api", "readarr-audiobooks", "book">>)
      [] OTHER -> None

\* Ids the server's listing can put first from one fetch to the next.
RealIds == {"101", "202"}

\* What _fetch_real_id can return after its GET: a real id, or None (transport
\* error, non-200, invalid JSON, empty list, no id field).
FetchOutcomes == {Some(id) : id \in RealIds} \cup {None}

----------------------------------------------------------------------------
(* HTTPClient.request results and ResponseValidator *)

Response(status_code, body, elapsed_ms, error) ==
    [status_code |-> status_code, body |-> body, elapsed_ms |-> elapsed_ms, error |-> error]

\* What urllib.request.urlopen does with a request: it returns a response
\* (kind "ok"), or raises HTTPError, URLError or another exception.
UrlopenOutcome(kind, code, body, reason) ==
    [kind |-> kind, code |-> code, body |-> body, reason |-> reason]

\* Mutant of request: a transport failure is given the status code 0.
request_ZeroStatus(outcome) ==
    CASE outcome.kind = "ok" -> Response(Some(outcome.code), outcome.body, 20, None)
      [] outcome.kind = "HTTPError" ->
            Response(Some(outcome.code), outcome.body, 20, Some(<<"HTTPError:">> \o outcome.reason))
      [] OTHER -> Response(Some(0), "", 20, Some(<<"URLError:">> \o outcome.reason))

\* HTTPClient.request from urlopen on: the dict it returns.
request(outcome) ==
    CASE outcome.kind = "ok" -> Response(Some(outcome.code), outcome.body, 20, None)
      [] outcome.kind = "HTTPError" ->
            Response(Some(outcome.code), outcome.body, 20, Some(<<"HTTPError:">> \o outcome.reason))
      [] outcome.kind = "URLError" ->
            Response(None, "", 20, Some(<<"URLError:">> \o outcome.reason))
      [] OTHER -> Response(None, "", 20, Some(<<"Exception:">> \o outcome.reason))

ConnectionRefused == UrlopenOutcome("URLError", 0, "", <<"[Errno 111]", "Connection", "refused">>)

\* What the server under test can answer to a test request.
UrlopenOutcomes ==
    { UrlopenOutcome("ok", 200, "json", <<>>),
      UrlopenOutcome("ok", 200, "html", <<>>),
      UrlopenOutcome("HTTPError", 500, "json", <<"Internal", "Server", "Error">>),
      ConnectionRefused }

Responses == {request(outcome) : outcome \in UrlopenOutcomes}

validate_status_code(response, expected_code) ==
    response.status_code = Some(expected_code)

\* json.loads(body) succeeds
validate_json_format(response, expected_format) ==
    IF ~expected_format THEN TRUE ELSE response.body = "json"

validate_response_time(response, max_time_ms) ==
    response.elapsed_ms <= max_time_ms

\* ResponseValidator.validate with the expectations run_test builds
\* The result dict is the set of its items <<key, value>>.
validate(response, expected_status) ==
    { <<"status_code", validate_status_code(response, expected_status)>>,
      <<"json_format", validate_json_format(response, TRUE)>>,
      <<"response_time", validate_response_time(response, 10000)>> }

----------------------------------------------------------------------------
(* TestResult values built by run_test and run_all_tests *)

TestResult(service, endpoint, method, test_name, status, http_status, error_message, validation_results, safety_notes) ==
    [service |-> service, endpoint |-> endpoint, method |-> method,
     test_name |-> test_name, status |-> status, http_status |-> http_status,
     error_message |-> error_message, validation_results |-> validation_results,
     safety_notes |-> safety_notes]

MockedResult(config) ==
    TestResult(extract_service_from_path(config.path), config.path, config.method,
               config.name, "SKIPPED", Some(200), None, {},
               Some(<<"Mocked", "in", "safe", "mode">>))

SkippedResult(config) ==
    TestResult(extract_service_from_path(config.path), config.path, config.method,
               config.name, "SKIPPED", None, None, {},
               Some(<<"Skipped", "in", "safe", "mode">>))

\* Mutant of LiveResult: the validation results do not count for the status.
LiveResult_IgnoresValidation(config, endpoint_path, response) ==
    TestResult(extract_service_from_path(config.path), endpoint_path, config.method,
               config.name, IF response.error # None THEN "FAIL" ELSE "PASS",
               response.status_code, response.error,
               validate(response, config.expected_status), None)

\* "Determine test status" and the TestResult of a live request
LiveResult(config, endpoint_path, response) ==
    LET validation_results == validate(response, config.expected_status)
        failed == response.error # None
        passed == \A item \in validation_results : item[2]
    IN TestResult(extract_service_from_path(config.path), endpoint_path, config.method,
                  config.name,
                  IF failed THEN "FAIL" ELSE IF passed THEN "PASS" ELSE "FAIL",
                  response.status_code,
                  IF failed THEN response.error
                  ELSE IF passed THEN None ELSE Some(<<"Validation", "failed">>),
                  validation_results, None)

\* the synthetic failure of run_all_tests
RunnerExceptionResult ==
    TestResult("unknown", <<"unknown">>, "unknown", "unknown", "FAIL", None,
               Some(<<"Runner", "exception:", "TypeError">>), {}, None)

\* Mutants of SafetyGate: the mock branch lost, the skip branch lost, the
\* global safe-mode flag not consulted.
SafetyGate_NoMock(safe, config) ==
    IF safe /\ config.destructive /\ config.safe_mode = "skip"
    THEN Some(SkippedResult(config)) ELSE None

SafetyGate_NoSkip(safe, config) ==
    IF safe /\ config.destructive /\ config.safe_mode = "mock"
    THEN Some(MockedResult(config)) ELSE None

SafetyGate_IgnoresSafeMode(safe, config) ==
    IF config.destructive
    THEN IF config.safe_mode = "mock" THEN Some(MockedResult(config))
         ELSE IF config.safe_mode = "skip" THEN Some(SkippedResult(config))
         ELSE None
    ELSE None

\* The safety gate at the head of run_test: the result returned without any
\* request, or None when the case goes on to run live.
SafetyGate(safe, config) ==
    IF safe /\ config.destructive
    THEN IF config.safe_mode = "mock" THEN Some(MockedResult(config))
         ELSE IF config.safe_mode = "skip" THEN Some(SkippedResult(config))
         ELSE None
    ELSE None

----------------------------------------------------------------------------
(* MediaIDFetcher.get_id_for_service and the placeholder loop of run_test *)

CacheKeys == {ServiceOrder[k] : k \in 1..Len(ServiceOrder)} \cup {"unknown"}

\* Mutant of CacheAfterFetch: the id returned to the caller is stored, the
\* static fallback id included.
CacheAfterFetch_StoresFallback(cache, service, fetched) ==
    [cache EXCEPT ![service] = IF fetched # None THEN fetched ELSE Some(FallbackId(service))]

\* get_id_for_service after _fetch_real_id returned `fetched`: the cache is
\* written only with a real id ...
CacheAfterFetch(cache, service, fetched) ==
    IF fetched # None THEN [cache EXCEPT ![service] = fetched] ELSE cache

\* ... and the caller gets the real id, or else the static fallback id.
IdAfterFetch(service, fetched) ==
    IF fetched # None THEN fetched[1] ELSE FallbackId(service)

\* The placeholder loop of run_test from parameter k on, as far as it runs
\* without a fetch: literal values and cache hits are substituted at once; on
\* a cache miss the worker leaves for _fetch_real_id (st = "fetch").
RECURSIVE SubstituteParams(_, _, _, _, _)
SubstituteParams(config, service, path, k, cache) ==
    IF k > Len(config.path_params)
    THEN [st |-> "request", path |-> path, k |-> k, res |-> None, outcome |-> None]
    ELSE LET param == config.path_params[k]
         IN IF StartsWithTest(param.value)
            THEN IF cache[service] # None
                 THEN SubstituteParams(config, service,
                          Replace(path, Placeholder(param.key), cache[service][1]),
                          k + 1, cache)
                 ELSE [st |-> "fetch", path |-> path, k |-> k, res |-> None, outcome |-> None]
            ELSE SubstituteParams(config, service,
                     Replace(path, Placeholder(param.key), param.value), k + 1, cache)

----------------------------------------------------------------------------
(* EnhancedAPITester.run_all_tests: a pool of Concurrency workers runs         *)
(* run_test on the cases in submission order; the caller collects the futures *)
(* as they complete and sorts the results at the end.                         *)

Cases == 1..Len(endpoint_configs)

Busy == {i \in Cases : fut[i].st \in {"fetch", "request"}}

HttpCall(i, purpose, method, endpoint) ==
    [case |-> i, purpose |-> purpose, method |-> method, endpoint |-> endpoint]

\* A free worker takes the next queued case and runs run_test up to its first
\* request: the safety gate, then the placeholder loop.
StartTest(i) ==
    /\ phase = "running"
    /\ fut[i].st = "queued"
    /\ \A j \in Cases : j < i => fut[j].st # "queued"
    /\ Cardinality(Busy) < Concurrency
    /\ LET config == endpoint_configs[i]
           gate == SafetyGate(safe_mode, config)
       IN fut' = [fut EXCEPT ![i] =
                    IF gate # None
                    THEN [st |-> "done", path |-> config.path, k |-> 1, res |-> gate, outcome |-> None]
                    ELSE SubstituteParams(config, extract_service_from_path(config.path),
                                          config.path, 1, id_cache)]
    /\ UNCHANGED <<safe_mode, endpoint_configs, id_cache, test_results, requests, phase>>
    /\ UNCHANGED <<triage_vars, catalog_vars, smoke_vars, main_vars>>

\* get_id_for_service after a cache miss: _fetch_real_id issues its GET (none
\* for a service without endpoint mapping), the cache is written when a real
\* id came back, and the loop goes on.  The GET and the cache write are one
\* step: nothing the worker reads lies between them.
FetchId(i) ==
    /\ phase = "running"
    /\ fut[i].st = "fetch"
    /\ LET config == endpoint_configs[i]
           service == extract_service_from_path(config.path)
           endpoint == FetchEndpoint(service)
           param == config.path_params[fut[i].k]
       IN \E fetched \in (IF endpoint = None THEN {None} ELSE FetchOutcomes) :
            /\ requests' = IF endpoint = None THEN requests
                           ELSE requests \cup {HttpCall(i, "id", "GET", endpoint[1])}
            /\ id_cache' = CacheAfterFetch(id_cache, service, fetched)
            /\ fut' = [fut EXCEPT ![i] =
                         SubstituteParams(config, service,
                             Replace(fut[i].path, Placeholder(param.key),
                                     IdAfterFetch(service, fetched)),
                             fut[i].k + 1, id_cache')]
    /\ UNCHANGED <<safe_mode, endpoint_configs, test_results, phase>>
    /\ UNCHANGED <<triage_vars, catalog_vars, smoke_vars, main_vars>>

\* The request of run_test and everything after it.  HTTPClient.request turns
\* every failure of urlopen into a result; urlencode of the query parameters
\* runs outside its try and its exception leaves run_test.
SendRequest(i) ==
    /\ phase = "running"
    /\ fut[i].st = "request"
    /\ LET config == endpoint_configs[i]
       IN /\ requests' = requests \cup {HttpCall(i, "test", config.method, fut[i].path)}
          /\ IF ~config.query_ok
             THEN fut' = [fut EXCEPT ![i].st = "raised"]
             ELSE \E outcome \in UrlopenOutcomes :
                    fut' = [fut EXCEPT ![i].st = "done",
                                       ![i].outcome = Some(outcome),
                                       ![i].res = Some(LiveResult(config, fut[i].path,
                                                                  request(outcome)))]
    /\ UNCHANGED <<safe_mode, endpoint_configs, id_cache, test_results, phase>>
    /\ UNCHANGED <<triage_vars, catalog_vars, smoke_vars, main_vars>>

\* Mutant of Collect: the exception of a future is not turned into a result.
Collect_DropsRaised(i) ==
    /\ phase = "running"
    /\ fut[i].st \in {"done", "raised"}
    /\ test_results' = IF fut[i].st = "done" THEN Append(test_results, fut[i].res[1])
                       ELSE test_results
    /\ fut' = [fut EXCEPT ![i].st = "collected"]
    /\ UNCHANGED <<safe_mode, endpoint_configs, id_cache, requests, phase>>
    /\ UNCHANGED <<triage_vars, catalog_vars, smoke_vars, main_vars>>

\* One round of the as_completed loop: future.result() returns the TestResult
\* or raises, and then the synthetic failure is appended.
CollectedResult(f) ==
    IF f.res # None THEN f.res[1] ELSE RunnerExceptionResult

Collect(i) ==
    /\ phase = "running"
    /\ fut[i].st \in {"done", "raised"}
    /\ test_results' = Append(test_results, CollectedResult(fut[i]))
    /\ fut' = [fut EXCEPT ![i].st = "collected"]
    /\ UNCHANGED <<safe_mode, endpoint_configs, id_cache, requests, phase>>
    /\ UNCHANGED <<triage_vars, catalog_vars, smoke_vars, main_vars>>

\* order = {config.path: i ...}: a later case with the same path overwrites
\* the index of an earlier one; order.get(endpoint, 10**9).
OrderKey(configs, endpoint) ==
    LET at == {i \in 1..Len(configs) : configs[i].path = endpoint}
    IN IF at = {} THEN 1000000000 ELSE (CHOOSE i \in at : \A j \in at : j <= i) - 1

SortedResults(configs, results) ==
    StableSortByKeys(results, [r \in 1..Len(results) |-> OrderKey(configs, results[r].endpoint)])

\* Every future is collected: sort and return.
ReturnResults ==
    /\ phase = "running"
    /\ \A i \in Cases : fut[i].st = "collected"
    /\ test_results' = SortedResults(endpoint_configs, test_results)
    /\ phase' = "returned"
    /\ UNCHANGED <<safe_mode, endpoint_configs, id_cache, fut, requests>>
    /\ UNCHANGED <<triage_vars, catalog_vars, smoke_vars, main_vars>>

\* The catalog of the run is loaded.
\* No run_tests call of api_smoke_test and no main in progress.
SmokeIdle ==
    /\ smoke_base = [scheme |-> "", rest |-> ""]
    /\ smoke_endpoints = <<>>
    /\ unique_endpoints = <<>>
    /\ smoke_futures = <<>>
    /\ smoke_results = <<>>
    /\ smoke_pc = "idle"

MainIdle ==
    /\ runner = "none"
    /\ args = [auto_start |-> FALSE, endpoints_file |-> "", config_file |-> ""]
    /\ main_pc = "idle"
    /\ processes = [dev |-> "none", external |-> "none"]
    /\ proc = <<>>
    /\ server_started = FALSE
    /\ main_results = <<>>
    /\ raised = FALSE
    /\ exit_code = <<>>

CatalogLoaded ==
    /\ config_file = None
    /\ use_openapi = FALSE
    /\ loader_pc = "loaded"
    /\ mixed_configs = <<>>
    /\ discovery = <<>>

TriageIdle ==
    /\ analyzer_results = <<>>
    /\ issues = <<>>
    /\ analyzer_pc = "ready"
    /\ analyze_calls = 0
    /\ analyze_returns = <<>>

Init ==
    /\ safe_mode \in BOOLEAN
    /\ endpoint_configs \in Catalogs
    /\ id_cache = [s \in CacheKeys |-> None]
    /\ fut = [i \in 1..Len(endpoint_configs) |->
                [st |-> "queued", path |-> endpoint_configs[i].path, k |-> 1, res |-> None,
                 outcome |-> None]]
    /\ test_results = <<>>
    /\ requests = {}
    /\ phase = "running"
    /\ TriageIdle
    /\ CatalogLoaded
    /\ SmokeIdle
    /\ MainIdle

Next ==
    \/ \E i \in Cases : StartTest(i)
    \/ \E i \in Cases : FetchId(i)
    \/ \E i \in Cases : SendRequest(i)
    \/ \E i \in Cases : Collect(i)
    \/ ReturnResults

Spec == Init /\ [][Next]_vars

----------------------------------------------------------------------------
(* scripts/analyze_results.py: IssueAnalyzer *)

\* str.lower() on one token
LowerToken(token) ==
    CASE token = "Timeout" -> "timeout"
      [] token = "Connection" -> "connection"
      [] token = "Series" -> "series"
      [] token = "Request" -> "request"
      [] token = "Not" -> "not"
      [] token = "Found" -> "found"
      [] token = "Internal" -> "internal"
      [] token = "Server" -> "server"
      [] token = "Error" -> "error"
      [] token = "Validation" -> "validation"
      [] token = "URLError:" -> "urlerror:"
      [] token = "HTTPError:" -> "httperror:"
      [] token = "DeleteSeries" -> "deleteseries"
      [] token = "disableIndexer" -> "disableindexer"
      [] token = "getSeries" -> "getseries"
      [] token = "getHistory" -> "gethistory"
      [] token = "updateHost" -> "updatehost"
      [] token = "getBase" -> "getbase"
      [] token = "getBook" -> "getbook"
      [] token = "getAuthor" -> "getauthor"
      [] token = "System" -> "system"
      [] token = "SystemConfig" -> "systemconfig"
      [] token = "Queue" -> "queue"
      [] OTHER -> token

Lower(text) == [j \in 1..Len(text) |-> LowerToken(text[j])]

\* keyword in text: the keywords hold no separator, so a match lies in one token
Contains(text, keyword) == \E j \in 1..Len(text) : text[j] = keyword

\* A Python exception leaving a function is the value Raised.
Raised == "<raised>"

\* result.get('error_message', '') of a report written by the runner: the key
\* is always there, null for an outcome without message.
determine_severity(result) ==
    IF result.error_message = None THEN Raised        \* None.lower()
    ELSE IF result.http_status = None THEN Raised     \* None >= 500
    ELSE LET http_status == result.http_status[1]
             error_message == Lower(result.error_message[1])
         IN IF http_status >= 500 THEN "Critical"
            ELSE IF http_status >= 400 THEN "High"
            ELSE IF Contains(error_message, "timeout") THEN "Medium"
            ELSE IF Contains(error_message, "connection") THEN "High"
            ELSE IF result.status = "FAIL" THEN "Medium"
            ELSE "Low"

\* Mutant of SeverityScore: the scale starts at 0 for Low.
SeverityScore_FromZero(severity) ==
    CASE severity = "Critical" -> 75
      [] severity = "High" -> 50
      [] severity = "Medium" -> 25
      [] OTHER -> 0

SeverityScore(severity) ==
    CASE severity = "Critical" -> 100
      [] severity = "High" -> 75
      [] severity = "Medium" -> 50
      [] severity = "Low" -> 25
      [] OTHER -> 0

\* Mutant of calculate_priority_score: the sum is not capped.
calculate_priority_score_Uncapped(service, endpoint, severity, error_message) ==
    SeverityScore(severity)
    + (IF Contains(Lower(endpoint), "queue") THEN 20 ELSE 0)
    + (IF Contains(Lower(endpoint), "series") THEN 15 ELSE 0)
    + (IF Contains(Lower(endpoint), "history") THEN 10 ELSE 0)
    + (IF Contains(Lower(error_message), "timeout") THEN 10 ELSE 0)
    + (IF Contains(Lower(error_message), "connection") THEN 15 ELSE 0)

calculate_priority_score(service, endpoint, severity, error_message) ==
    LET score == SeverityScore(severity)
                 + (IF Contains(Lower(endpoint), "queue") THEN 20 ELSE 0)
                 + (IF Contains(Lower(endpoint), "series") THEN 15 ELSE 0)
                 + (IF Contains(Lower(endpoint), "history") THEN 10 ELSE 0)
                 + (IF Contains(Lower(error_message), "timeout") THEN 10 ELSE 0)
                 + (IF Contains(Lower(error_message), "connection") THEN 15 ELSE 0)
    IN IF score < 100 THEN score ELSE 100

\* Mutant of score_to_priority: the band limits are exclusive.
score_to_priority_Exclusive(score) ==
    IF score > 80 THEN "P0 - Critical"
    ELSE IF score > 60 THEN "P1 - High"
    ELSE IF score > 40 THEN "P2 - Medium"
    ELSE "P3 - Low"

score_to_priority(score) ==
    IF score >= 80 THEN "P0 - Critical"
    ELSE IF score >= 60 THEN "P1 - High"
    ELSE IF score >= 40 THEN "P2 - Medium"
    ELSE "P3 - Low"

determine_assignee(service, severity) ==
    IF service = "sabnzbd" THEN "Backend Team - SABnzbd Specialist"
    ELSE IF service = "sonarr" THEN "Backend Team - Sonarr Specialist"
    ELSE IF severity = "Critical" THEN "Senior Backend Developer"
    ELSE IF severity = "High" THEN "Backend Developer"
    ELSE "Backend Team - General"

\* Mutant of estimate_effort: the connection multiplier is applied after the
\* timeout multiplier instead of in its elif.
estimate_effort_BothMultipliers(severity, error_message) ==
    LET effort == CASE severity = "Critical" -> 80
                    [] severity = "High" -> 40
                    [] severity = "Medium" -> 20
                    [] severity = "Low" -> 10
                    [] OTHER -> 20
        timed == IF Contains(Lower(error_message), "timeout") THEN (effort * 12) \div 10
                 ELSE effort
    IN IF Contains(Lower(error_message), "connection") THEN (timed * 15) \div 10 ELSE timed

\* Hours in tenths: 8 h is 80, 8 * 1.2 h is 96.
estimate_effort(severity, error_message) ==
    LET effort == CASE severity = "Critical" -> 80
                    [] severity = "High" -> 40
                    [] severity = "Medium" -> 20
                    [] severity = "Low" -> 10
                    [] OTHER -> 20
    IN IF Contains(Lower(error_message), "timeout") THEN (effort * 12) \div 10
       ELSE IF Contains(Lower(error_message), "connection") THEN (effort * 15) \div 10
       ELSE effort

\* Days from the day of the analysis.
calculate_due_date(priority) ==
    CASE priority = "P0 - Critical" -> 1
      [] priority = "P1 - High" -> 3
      [] priority = "P2 - Medium" -> 7
      [] priority = "P3 - Low" -> 14
      [] OTHER -> 7

\* create_issue: the Issue, or Raised when determine_severity raises.  The
\* advisory strings (file_location, suggested_fix, description) are left out.
create_issue(result, issue_id) ==
    LET severity == determine_severity(result)
    IN IF severity = Raised THEN <<>>
       ELSE LET error_message == result.error_message[1]
                priority_score == calculate_priority_score(result.service, result.endpoint,
                                                           severity, error_message)
                priority == score_to_priority(priority_score)
            IN << [id |-> issue_id, service |-> result.service, endpoint |-> result.endpoint,
                   method |-> result.method, severity |-> severity,
                   error_message |-> error_message, http_status |-> result.http_status,
                   priority_score |-> priority_score, priority |-> priority,
                   assignee |-> determine_assignee(result.service, severity),
                   estimated_effort |-> estimate_effort(severity, error_message),
                   due_date |-> calculate_due_date(priority)] >>

\* Mutant of prioritize_issues: an ascending sort, reversed (ties reversed).
prioritize_issues_Reversed(list) ==
    LET up == StableSortByKeys(list, [p \in 1..Len(list) |-> list[p].priority_score])
    IN [p \in 1..Len(up) |-> up[Len(up) + 1 - p]]

\* prioritize_issues: sort by priority_score, reverse=True (stable).
prioritize_issues(list) ==
    StableSortByKeys(list, [p \in 1..Len(list) |-> 0 - list[p].priority_score])

\* The loop of analyze_results from result k on: self.issues and whether an
\* exception left the loop.
RECURSIVE AnalyzeLoop(_, _, _, _)
AnalyzeLoop(results, k, issue_id, list) ==
    IF k > Len(results) THEN [issues |-> list, raised |-> FALSE]
    ELSE IF results[k].status = "FAIL"
         THEN LET issue == create_issue(results[k], issue_id)
              IN IF issue = <<>> THEN [issues |-> list, raised |-> TRUE]
                 ELSE AnalyzeLoop(results, k + 1, issue_id + 1, Append(list, issue[1]))
         ELSE AnalyzeLoop(results, k + 1, issue_id, list)

\* analyze_results on the analyzer: appends to self.issues, sorts, returns it.
AnalyzeResults ==
    /\ analyzer_pc \in {"ready", "returned"}
    /\ analyze_calls < MaxAnalyzeCalls
    /\ LET run == AnalyzeLoop(analyzer_results, 1, 1, issues)
       IN /\ issues' = IF run.raised THEN run.issues ELSE prioritize_issues(run.issues)
          /\ analyzer_pc' = IF run.raised THEN "raised" ELSE "returned"
          /\ analyze_returns' = IF run.raised THEN analyze_returns
                                ELSE Append(analyze_returns, prioritize_issues(run.issues))
    /\ analyze_calls' = analyze_calls + 1
    /\ UNCHANGED analyzer_results
    /\ UNCHANGED <<runner_vars, catalog_vars, smoke_vars, main_vars>>

\* Reports: outcomes with the fields the runner writes.
PlainEndpoint == <<"api", "radarr", "movies">>

KeywordEndpoints ==
    { <<"api", "sonarr", "queue", "123">>, <<"api", "sonarr", "Series">>,
      <<"api", "sabnzbd", "history">> }

TriageMessages ==
    { <<"Not", "Found">>, <<"Request", "Timeout">>, <<"connection", "refused">>,
      <<"Connection", "timeout">> }

TriageStatuses == {None, Some(200), Some(404), Some(500)}

FailOutcome(endpoint, http_status, message) ==
    TestResult(endpoint[2], endpoint, "GET", "case", "FAIL", http_status, Some(message),
               {}, None)

\* Every status with every message on a plain endpoint; the keyword endpoints
\* with a status below 400 and with a status of 500; one endpoint and message
\* carrying every keyword; a PASS and a SKIPPED outcome.
TriageOutcomes ==
    { FailOutcome(PlainEndpoint, h, m) : h \in TriageStatuses, m \in TriageMessages }
    \cup { FailOutcome(e, h, <<"Not", "Found">>) : e \in KeywordEndpoints,
                                                   h \in {Some(200), Some(500)} }
    \cup { FailOutcome(<<"api", "sonarr", "queue", "Series", "history">>, Some(200),
                       <<"Connection", "timeout">>),
           TestResult("radarr", <<"api", "radarr", "queue">>, "GET", "case", "PASS",
                      Some(200), None, {}, None),
           MockedResult(DeleteSabQueueItem) }

RunnerIdle ==
    /\ safe_mode = TRUE
    /\ endpoint_configs = <<>>
    /\ id_cache = [s \in CacheKeys |-> None]
    /\ fut = <<>>
    /\ test_results = <<>>
    /\ requests = {}
    /\ phase = "idle"

\* IssueAnalyzer(test_results_file): the report is loaded, self.issues = [].
InitTriage ==
    /\ RunnerIdle
    /\ CatalogLoaded
    /\ SmokeIdle
    /\ MainIdle
    /\ analyzer_results \in SeqsUpTo(TriageOutcomes, MaxOutcomes)
    /\ issues = <<>>
    /\ analyzer_pc = "ready"
    /\ analyze_calls = 0
    /\ analyze_returns = <<>>

NextTriage == AnalyzeResults

SpecTriage == InitTriage /\ [][NextTriage]_vars

----------------------------------------------------------------------------
(* EnhancedOpenAPIFetcher: API description documents and their operations *)

\* One path x method entry of the 'paths' object of an API description.
\* operationId "" stands for an absent key; parameters is a sequence of
\* [name, in].
Operation(path, method, operationId, tags, deprecated, parameters) ==
    [path |-> path, method |-> method, operationId |-> operationId, tags |-> tags,
     deprecated |-> deprecated, parameters |-> parameters]

IdInPath == <<[name |-> "id", in |-> "path"]>>

\* A parsed JSON object: its top-level keys, basePath ('' is <<>>), the paths
\* of the servers' urls, and the path x method entries in document order.
Document(keys, basePath, servers, paths) ==
    [keys |-> keys, basePath |-> basePath, servers |-> servers, paths |-> paths]

\* An OpenAPI 3 description with a server url and paths below it.
DocA ==
    Document({"openapi", "servers", "paths"}, <<>>, << <<"api", "v3">> >>,
      << Operation(<<"api", "v3", "series">>, "get", "getSeries", <<"Series">>, FALSE, <<>>),
         Operation(<<"api", "v3", "series", "{id}">>, "delete", "", <<"Series">>, FALSE, IdInPath),
         Operation(<<"series", "{id}">>, "post", "DeleteSeries", <<>>, FALSE, IdInPath),
         Operation(<<"command", "pause">>, "post", "", <<>>, FALSE, <<>>),
         Operation(<<"system", "restart">>, "post", "", <<"System">>, FALSE, <<>>),
         Operation(<<"indexer", "{id}">>, "put", "disableIndexer", <<>>, FALSE, IdInPath),
         Operation(<<"history">>, "get", "getHistory", <<>>, TRUE, <<>>),
         Operation(<<"series">>, "parameters", "", <<>>, FALSE, <<>>),
         Operation(<<"queue", "bulkdelete">>, "post", "", <<"Queue">>, FALSE, <<>>),
         Operation(<<"config", "host">>, "put", "updateHost", <<"SystemConfig">>, FALSE, <<>>) >>)

\* A Swagger 2 description whose paths carry the proxy's namespace of the service.
DocNamespaced(service) ==
    Document({"swagger", "basePath", "paths"}, <<"api", "v1">>, <<>>,
      << Operation(<<"api", ServiceSegment(service)>>, "get", "getBase", <<>>, FALSE, <<>>),
         Operation(<<"api", ServiceSegment(service), "book">>, "get", "getBook", <<>>, FALSE, <<>>),
         Operation(<<"author">>, "get", "getAuthor", <<>>, FALSE, <<>>) >>)

\* {"error": "..."}: valid JSON, no description.
ErrorObject == Document({"error"}, <<>>, <<>>, <<>>)

\* json.loads(body): the parsed value, or None for JSONDecodeError.
json_loads(body) ==
    CASE body = "doc-A" -> Some(DocA)
      [] body = "doc-sonarr" -> Some(DocNamespaced("sonarr"))
      [] body = "doc-readarr-audiobooks" -> Some(DocNamespaced("readarr_audiobooks"))
      [] body = "error-object" -> Some(ErrorObject)
      [] OTHER -> None

\* self.config['openapi_path']
openapi_path(service_name) ==
    <<"api", ServiceSegment(service_name), "openapi.json">>

\* Mutant of _fetch_openapi_spec: any JSON object of a 200 response is a spec.
_fetch_openapi_spec_AnyObject(response) ==
    IF response.error # None THEN None
    ELSE IF response.status_code = Some(200) THEN json_loads(response.body)
    ELSE None

\* _fetch_openapi_spec from the response on: the spec, or None.
_fetch_openapi_spec(response) ==
    IF response.error # None THEN None
    ELSE IF response.status_code = Some(200)
         THEN LET data == json_loads(response.body)
              IN IF /\ data # None
                    /\ data[1].keys # {}
                    /\ ("openapi" \in data[1].keys \/ "swagger" \in data[1].keys)
                 THEN data ELSE None
         ELSE None

\* get_openapi_spec on a new fetcher: the cache is empty, exceptions become None.
get_openapi_spec(response) == _fetch_openapi_spec(response)

\* method.upper()
UpperToken(method) ==
    CASE method = "get" -> "GET"
      [] method = "post" -> "POST"
      [] method = "put" -> "PUT"
      [] method = "delete" -> "DELETE"
      [] OTHER -> method

\* The destructive keywords a lower-case token contains ...
KeywordsIn(token) ==
    CASE token = "delete" -> {"delete"}
      [] token = "deleteseries" -> {"delete"}
      [] token = "bulkdelete" -> {"delete"}
      [] token = "pause" -> {"pause"}
      [] token = "disableindexer" -> {"disable"}
      [] OTHER -> {}

\* ... and those it begins with.
KeywordsAtStart(token) ==
    CASE token = "delete" -> {"delete"}
      [] token = "deleteseries" -> {"delete"}
      [] token = "pause" -> {"pause"}
      [] token = "disableindexer" -> {"disable"}
      [] OTHER -> {}

PathKeywords ==
    {"delete", "remove", "pause", "resume", "cancel", "stop", "kill", "reset", "clear"}

\* '/delete' in path.lower() holds when a segment of the path begins with the
\* keyword.
_is_destructive_operation(method, path, method_data) ==
    \/ LowerToken(method) = "delete"
    \/ \E j \in 1..Len(path) : KeywordsAtStart(LowerToken(path[j])) \cap PathKeywords # {}
    \/ KeywordsIn(LowerToken(method_data.operationId))
          \cap (PathKeywords \cup {"disable", "shutdown"}) # {}
    \/ \E t \in 1..Len(method_data.tags) :
          LowerToken(method_data.tags[t]) \in {"destructive", "admin", "system"}

\* path.startswith('/api/')
StartsWithApi(path) == Len(path) >= 2 /\ path[1] = "api"

\* path.startswith('/api/readarr-audiobooks/')
StartsWithAudiobooks(path) ==
    Len(path) >= 3 /\ path[1] = "api" /\ path[2] = "readarr-audiobooks"

\* segment.startswith(service)
SegmentStartsWith(segment, service) ==
    segment = service \/ (segment = "readarr-audiobooks" /\ service = "readarr")

\* path.startswith(f'/api/{service}')
StartsWithService(path, service) ==
    Len(path) >= 2 /\ path[1] = "api" /\ SegmentStartsWith(path[2], service)

\* full_path of generate_endpoint_configs
FullPath(service_name, base_path, path) ==
    LET full_path == IF StartsWithApi(path) THEN path ELSE base_path \o path
    IN IF service_name = "readarr_audiobooks"
       THEN IF StartsWithAudiobooks(full_path) THEN full_path
            ELSE IF StartsWithApi(full_path)
                 THEN <<"api", "readarr-audiobooks">> \o Tail(full_path)
                 ELSE <<"api", "readarr-audiobooks">> \o full_path
       ELSE full_path

\* f"test_{param_name}_123"
TestValue(param_name) ==
    CASE param_name = "id" -> "test_id_123"
      [] OTHER -> "test_?_123"

\* The EndpointConfig generate_endpoint_configs builds for one operation.
\* The name is the operationId, or f"{method.upper()} {full_path}".
\* Mutant of GeneratedConfig: every generated case is allowed to run.
GeneratedConfig_AlwaysAllow(service_name, base_path, op) ==
    LET full_path == FullPath(service_name, base_path, op.path)
        in_path == SelectSeq(op.parameters, LAMBDA param : param.in = "path")
    IN EndpointConfig(IF op.operationId # "" THEN <<op.operationId>>
                      ELSE <<UpperToken(op.method)>> \o full_path,
                      full_path, UpperToken(op.method),
                      _is_destructive_operation(op.method, op.path, op), "allow",
                      [k \in 1..Len(in_path) |->
                          [key |-> in_path[k].name, value |-> TestValue(in_path[k].name)]],
                      TRUE)

GeneratedConfig(service_name, base_path, op) ==
    LET full_path == FullPath(service_name, base_path, op.path)
        destructive == _is_destructive_operation(op.method, op.path, op)
        in_path == SelectSeq(op.parameters, LAMBDA param : param.in = "path")
    IN EndpointConfig(IF op.operationId # "" THEN <<op.operationId>>
                      ELSE <<UpperToken(op.method)>> \o full_path,
                      full_path, UpperToken(op.method), destructive,
                      IF destructive THEN "mock" ELSE "allow",
                      [k \in 1..Len(in_path) |->
                          [key |-> in_path[k].name, value |-> TestValue(in_path[k].name)]],
                      TRUE)

HttpMethods == {"get", "post", "put", "delete", "patch", "head", "options"}

generate_endpoint_configs(service_name, openapi_spec) ==
    LET base_path == IF openapi_spec.basePath # <<>> THEN openapi_spec.basePath
                     ELSE IF openapi_spec.servers # <<>> THEN openapi_spec.servers[1]
                     ELSE <<>>
        kept == SelectSeq(openapi_spec.paths,
                          LAMBDA op : LowerToken(op.method) \in HttpMethods /\ ~op.deprecated)
    IN [k \in 1..Len(kept) |-> GeneratedConfig(service_name, base_path, kept[k])]

----------------------------------------------------------------------------
(* EnhancedAPITester.load_endpoint_configs: the catalog of a run *)

BuiltInCase(name, path) == EndpointConfig(name, path, "GET", FALSE, "mock", <<>>, TRUE)

get_default_configs_for_service(service) ==
    CASE service = "sonarr" ->
            << BuiltInCase(<<"Get", "Sonarr", "Base">>, <<"api", "sonarr">>),
               BuiltInCase(<<"Get", "Sonarr", "Series">>, <<"api", "sonarr", "series">>),
               BuiltInCase(<<"Get", "Sonarr", "System", "Status">>,
                           <<"api", "sonarr", "system", "status">>) >>
      [] service = "radarr" ->
            << BuiltInCase(<<"Get", "Radarr", "Base">>, <<"api", "radarr">>),
               BuiltInCase(<<"Get", "Radarr", "Movies">>, <<"api", "radarr", "movies">>),
               BuiltInCase(<<"Get", "Radarr", "System", "Status">>,
                           <<"api", "radarr", "system", "status">>) >>
      [] service = "prowlarr" ->
            << BuiltInCase(<<"Get", "Prowlarr", "Base">>, <<"api", "prowlarr">>),
               BuiltInCase(<<"Get", "Prowlarr", "Applications">>,
                           <<"api", "prowlarr", "applications">>),
               BuiltInCase(<<"Get", "Prowlarr", "System", "Status">>,
                           <<"api", "prowlarr", "system", "status">>) >>
      [] service = "readarr" ->
            << BuiltInCase(<<"Get", "Readarr", "Base">>, <<"api", "readarr">>),
               BuiltInCase(<<"Get", "Readarr", "Authors">>, <<"api", "readarr", "author">>),
               BuiltInCase(<<"Get", "Readarr", "System", "Status">>,
                           <<"api", "readarr", "system", "status">>) >>
      [] service = "readarr_audiobooks" ->
            << BuiltInCase(<<"Get", "Readarr", "Audiobooks", "Base">>,
                           <<"api", "readarr-audiobooks">>),
               BuiltInCase(<<"Get", "Readarr", "Audiobooks", "Authors">>,
                           <<"api", "readarr-audiobooks", "author">>),
               BuiltInCase(<<"Get", "Readarr", "Audiobooks", "System", "Status">>,
                           <<"api", "readarr-audiobooks", "system", "status">>) >>
      [] OTHER -> <<>>

\* The first of the command-based SABnzbd cases of get_mixed_endpoint_configs.
sabnzbd_configs ==
    << BuiltInCase(<<"Get", "SABnzbd", "Base">>, <<"api", "sabnzbd">>),
       BuiltInCase(<<"Get", "SABnzbd", "Queue">>, <<"api", "sabnzbd", "queue">>) >>

openapi_services == <<"sonarr", "radarr", "prowlarr", "readarr", "readarr_audiobooks">>

\* "Add service prefix to paths if needed": config.path after the loop body.
PrefixedPath(service, path) ==
    IF service = "readarr_audiobooks"
    THEN IF ~StartsWithAudiobooks(path)
         THEN IF StartsWithApi(path) THEN <<"api", "readarr-audiobooks">> \o Tail(path)
              ELSE <<"api", "readarr-audiobooks">> \o path
         ELSE path
    ELSE IF ~StartsWithService(path, service) THEN <<"api", service>> \o path
         ELSE path

\* What one round of the loop over openapi_services adds to mixed_configs.
ServiceConfigs(service, response) ==
    LET openapi_spec == get_openapi_spec(response)
    IN IF openapi_spec # None
       THEN LET service_configs == generate_endpoint_configs(service, openapi_spec[1])
            IN [k \in 1..Len(service_configs) |->
                   [service_configs[k] EXCEPT !.path = PrefixedPath(service, @)]]
       ELSE get_default_configs_for_service(service)

\* Representative cases of get_default_endpoint_configs and of a catalog file.
get_default_endpoint_configs ==
    <<GetSonarrSeries, GetSabQueueItem, DeleteSabQueueItem, ResumeSabQueue, ExecuteSonarrCommand>>

FileCatalog == <<RemoveRadarrMovie, PauseSabQueue>>

\* --config-file: not given, or given and the path holds no file, a file that
\* open() cannot read, a file json.load or the field accesses reject, or a
\* catalog.
ConfigFiles ==
    {None, Some("missing"), Some("unreadable"), Some("malformed"), Some("valid")}

\* What a service can answer to the GET of its description.
DiscoveryOutcomes(service) ==
    { ConnectionRefused,
      UrlopenOutcome("Exception", 0, "", <<"timed", "out">>),
      UrlopenOutcome("HTTPError", 404, "html", <<"Not", "Found">>),
      UrlopenOutcome("ok", 200, "html", <<>>),
      UrlopenOutcome("ok", 200, "error-object", <<>>),
      UrlopenOutcome("ok", 200, "doc-A", <<>>) }
    \cup (IF service = "sonarr" THEN {UrlopenOutcome("ok", 200, "doc-sonarr", <<>>)}
          ELSE IF service = "readarr_audiobooks"
               THEN {UrlopenOutcome("ok", 200, "doc-readarr-audiobooks", <<>>)}
               ELSE {})

\* load_endpoint_configs up to its return, or to the loop of
\* get_mixed_endpoint_configs.
LoadEndpointConfigs ==
    /\ loader_pc = "start"
    /\ IF config_file # None /\ config_file[1] # "missing"
       THEN IF config_file[1] = "valid"
            THEN /\ endpoint_configs' = FileCatalog
                 /\ loader_pc' = "loaded"
                 /\ UNCHANGED mixed_configs
            ELSE /\ loader_pc' = "raised"
                 /\ UNCHANGED <<endpoint_configs, mixed_configs>>
       ELSE IF use_openapi
            THEN /\ mixed_configs' = sabnzbd_configs
                 /\ loader_pc' = "discovering"
                 /\ UNCHANGED endpoint_configs
            ELSE /\ endpoint_configs' = get_default_endpoint_configs
                 /\ loader_pc' = "loaded"
                 /\ UNCHANGED mixed_configs
    /\ UNCHANGED <<config_file, use_openapi, discovery>>
    /\ UNCHANGED <<safe_mode, id_cache, fut, test_results, requests, phase>>
    /\ UNCHANGED <<triage_vars, smoke_vars, main_vars>>

\* One round of the loop of get_mixed_endpoint_configs: the description of the
\* next service is fetched and its cases are added; after the last service
\* the list is returned and becomes self.endpoint_configs.
DiscoverService ==
    /\ loader_pc = "discovering"
    /\ LET service == openapi_services[Len(discovery) + 1]
       IN \E outcome \in DiscoveryOutcomes(service) :
            LET response == request(outcome)
                added == ServiceConfigs(service, response)
            IN /\ requests' = requests
                     \cup {HttpCall(0, "openapi", "GET", openapi_path(service))}
               /\ discovery' = Append(discovery, [service |-> service, response |-> response,
                                                  configs |-> added])
               /\ mixed_configs' = mixed_configs \o added
               /\ IF Len(discovery) + 1 = Len(openapi_services)
                  THEN endpoint_configs' = mixed_configs' /\ loader_pc' = "loaded"
                  ELSE UNCHANGED <<endpoint_configs, loader_pc>>
    /\ UNCHANGED <<config_file, use_openapi>>
    /\ UNCHANGED <<safe_mode, id_cache, fut, test_results, phase>>
    /\ UNCHANGED <<triage_vars, smoke_vars, main_vars>>

\* EnhancedAPITester(...) at the call of load_endpoint_configs.
InitCatalog ==
    /\ config_file \in ConfigFiles
    /\ use_openapi \in BOOLEAN
    /\ loader_pc = "start"
    /\ mixed_configs = <<>>
    /\ discovery = <<>>
    /\ safe_mode = TRUE
    /\ endpoint_configs = <<>>
    /\ id_cache = [s \in CacheKeys |-> None]
    /\ fut = <<>>
    /\ test_results = <<>>
    /\ requests = {}
    /\ phase = "idle"
    /\ TriageIdle
    /\ SmokeIdle
    /\ MainIdle

NextCatalog == LoadEndpointConfigs \/ DiscoverService

SpecCatalog == InitCatalog /\ [][NextCatalog]_vars

----------------------------------------------------------------------------
(* api_smoke_test.py: fetch_endpoint and run_tests.  An endpoint is the      *)
(* sequence of the segments of its path; base is the pair urlparse makes of  *)
(* it: the text before the first ':' when it reads as a scheme, and the rest *)

MaxEndpoints == 3

\* --base http://localhost:3000, and the same without "http://": urlparse
\* reads "localhost" as the scheme of "localhost:3000".
Bases == { [scheme |-> "http", rest |-> "localhost:3000"],
           [scheme |-> "localhost", rest |-> "3000"] }

\* urllib.parse.uses_relative
uses_relative == {"", "http", "https", "ftp", "file", "wais", "gopher", "nntp", "shttp",
                  "imap", "mms", "prospero", "rtsp", "rtspu", "sftp", "svn", "svn+ssh",
                  "ws", "wss"}

\* urljoin(base.rstrip("/") + "/", path.lstrip("/")) for a path without a
\* scheme of its own: joined to the base when the scheme of the base takes
\* relative references, otherwise the stripped path alone.
urljoin(base, path) ==
    IF base.scheme \in uses_relative
    THEN [scheme |-> base.scheme, rest |-> <<base.rest>> \o path]
    ELSE [scheme |-> "", rest |-> path]

\* TestResult of api_smoke_test.py
SmokeTestResult(endpoint, status, http_status, error_message) ==
    [endpoint |-> endpoint, status |-> status, http_status |-> http_status,
     error_message |-> error_message]

\* request.Request(url) raises ValueError (unknown url type) for a url without
\* scheme, before the try: the value is None then.  Every failure of urlopen
\* becomes a FAIL result.
fetch_endpoint(base, path, outcome) ==
    IF urljoin(base, path).scheme = "" THEN None
    ELSE Some(CASE outcome.kind = "ok" ->
                      IF outcome.code \div 100 = 2
                      THEN SmokeTestResult(path, "PASS", Some(outcome.code), None)
                      ELSE SmokeTestResult(path, "FAIL", Some(outcome.code),
                                           Some(<<"Unexpected", "HTTP">>))
                [] outcome.kind = "HTTPError" ->
                      SmokeTestResult(path, "FAIL", Some(outcome.code),
                                      Some(<<"HTTPError:">> \o outcome.reason))
                [] outcome.kind = "URLError" ->
                      SmokeTestResult(path, "FAIL", None,
                                      Some(<<"URLError:">> \o outcome.reason))
                [] OTHER ->
                      SmokeTestResult(path, "FAIL", None,
                                      Some(<<"Exception:">> \o outcome.reason)))

\* The synthetic failure of run_tests for a future that raised.
SmokeRunnerException ==
    SmokeTestResult(<<"UNKNOWN">>, "FAIL", None, Some(<<"Runner", "exception:">>))

\* The seen/unique_endpoints loop: first occurrences, in order.
RECURSIVE Deduplicate(_)
Deduplicate(eps) ==
    IF eps = <<>> THEN <<>>
    ELSE LET front == Deduplicate(SubSeq(eps, 1, Len(eps) - 1))
             ep == eps[Len(eps)]
         IN IF \E j \in 1..Len(front) : front[j] = ep THEN front ELSE Append(front, ep)

\* order = {ep: i ...}; order.get(r.endpoint, 10**9)
SmokeOrderKey(unique, endpoint) ==
    LET at == {i \in 1..Len(unique) : unique[i] = endpoint}
    IN IF at = {} THEN 1000000000 ELSE (CHOOSE i \in at : TRUE) - 1

SmokeSorted(unique, list) ==
    StableSortByKeys(list, [r \in 1..Len(list) |-> SmokeOrderKey(unique, list[r].endpoint)])

SmokeFutures == 1..Len(smoke_futures)

\* The head of run_tests: deduplicate, then submit one future per endpoint.
SubmitAll ==
    /\ smoke_pc = "start"
    /\ unique_endpoints' = Deduplicate(smoke_endpoints)
    /\ smoke_futures' = [k \in 1..Len(unique_endpoints') |-> [st |-> "queued", res |-> None]]
    /\ smoke_pc' = "running"
    /\ UNCHANGED <<smoke_base, smoke_endpoints, smoke_results>>
    /\ UNCHANGED <<runner_vars, triage_vars, catalog_vars, main_vars>>

\* A free worker of the pool takes the next submitted call.
StartFetch(k) ==
    /\ smoke_pc = "running"
    /\ smoke_futures[k].st = "queued"
    /\ \A j \in SmokeFutures : j < k => smoke_futures[j].st # "queued"
    /\ Cardinality({j \in SmokeFutures : smoke_futures[j].st = "fetching"}) < Concurrency
    /\ smoke_futures' = [smoke_futures EXCEPT ![k].st = "fetching"]
    /\ UNCHANGED <<smoke_base, smoke_endpoints, unique_endpoints, smoke_results, smoke_pc>>
    /\ UNCHANGED <<runner_vars, triage_vars, catalog_vars, main_vars>>

\* fetch_endpoint returns or raises: the future completes.
FinishFetch(k) ==
    /\ smoke_pc = "running"
    /\ smoke_futures[k].st = "fetching"
    /\ \E outcome \in UrlopenOutcomes :
          LET res == fetch_endpoint(smoke_base, unique_endpoints[k], outcome)
          IN smoke_futures' = [smoke_futures EXCEPT ![k] =
                                  [st |-> IF res = None THEN "raised" ELSE "done",
                                   res |-> res]]
    /\ UNCHANGED <<smoke_base, smoke_endpoints, unique_endpoints, smoke_results, smoke_pc>>
    /\ UNCHANGED <<runner_vars, triage_vars, catalog_vars, main_vars>>

\* One round of the as_completed loop of run_tests.
CollectFetch(k) ==
    /\ smoke_pc = "running"
    /\ smoke_futures[k].st \in {"done", "raised"}
    /\ smoke_results' = Append(smoke_results,
                               IF smoke_futures[k].st = "done" THEN smoke_futures[k].res[1]
                               ELSE SmokeRunnerException)
    /\ smoke_futures' = [smoke_futures EXCEPT ![k].st = "collected"]
    /\ UNCHANGED <<smoke_base, smoke_endpoints, unique_endpoints, smoke_pc>>
    /\ UNCHANGED <<runner_vars, triage_vars, catalog_vars, main_vars>>

\* Every future is collected: results.sort(...) and return.
ReturnSmokeResults ==
    /\ smoke_pc = "running"
    /\ \A k \in SmokeFutures : smoke_futures[k].st = "collected"
    /\ smoke_results' = SmokeSorted(unique_endpoints, smoke_results)
    /\ smoke_pc' = "returned"
    /\ UNCHANGED <<smoke_base, smoke_endpoints, unique_endpoints, smoke_futures>>
    /\ UNCHANGED <<runner_vars, triage_vars, catalog_vars, main_vars>>

\* Endpoints of DEFAULT_ENDPOINTS.
EndpointPool == { <<"api", "sabnzbd", "queue">>, <<"api", "sonarr", "series">>,
                  <<"api", "sonarr", "queue">> }

\* run_tests(base, endpoints, timeout, concurrency) is called.
InitSmoke ==
    /\ RunnerIdle
    /\ TriageIdle
    /\ CatalogLoaded
    /\ MainIdle
    /\ smoke_base \in Bases
    /\ smoke_endpoints \in SeqsUpTo(EndpointPool, MaxEndpoints)
    /\ unique_endpoints = <<>>
    /\ smoke_futures = <<>>
    /\ smoke_results = <<>>
    /\ smoke_pc = "start"

NextSmoke ==
    \/ SubmitAll
    \/ \E k \in SmokeFutures : StartFetch(k)
    \/ \E k \in SmokeFutures : FinishFetch(k)
    \/ \E k \in SmokeFutures : CollectFetch(k)
    \/ ReturnSmokeResults

SpecSmoke == InitSmoke /\ [][NextSmoke]_vars

----------------------------------------------------------------------------
(* main of api_smoke_test.py and of enhanced_api_smoke_test.py, from         *)
(* parse_args on.  The two differ in the endpoints file, in what the try     *)
(* block runs and in how the failed outcomes are counted.                    *)

Runners == {"api_smoke_test", "enhanced_api_smoke_test"}

\* stop_process(proc): nothing for a process that has exited (poll() is not
\* None), otherwise SIGTERM to its process group.
stop_process_Noop(p, procs) == procs

stop_process(p, procs) ==
    IF procs[p] = "running" THEN [procs EXCEPT ![p] = "terminated"] ELSE procs

\* if server_started and proc: stop_process(proc)
StopIfStarted(started, handle, procs) ==
    IF started /\ handle # None THEN stop_process(handle[1], procs) ELSE procs

\* is_server_up(base): a 2xx/3xx answer within 2 seconds.  A server that
\* runs may still fail to answer in time.
is_server_up(procs) ==
    IF procs.dev = "running" \/ procs.external = "running" THEN BOOLEAN ELSE {FALSE}

\* print_report of api_smoke_test: failed = len(results) - passed.
print_report(list) ==
    LET passed_count == Cardinality({k \in 1..Len(list) : list[k].status = "PASS"})
    IN [passed |-> passed_count, failed |-> Len(list) - passed_count]

\* Mutant of failed_tests: every outcome that is not PASS counts as failed.
failed_tests_NotPassed(list) == print_report(list).failed

\* failed_tests = sum(1 for r in results if r.status == "FAIL")
failed_tests(list) == Cardinality({k \in 1..Len(list) : list[k].status = "FAIL"})

\* exit_code = 0 if failed == 0 else 1, with the count of the runner.
ExitCodeOf(script, list) ==
    LET failed_count == IF script = "api_smoke_test" THEN print_report(list).failed
                        ELSE failed_tests(list)
    IN IF failed_count = 0 THEN 0 ELSE 1

\* What run_tests and run_all_tests can put into their lists.
SmokeOutcomePool ==
    {fetch_endpoint([scheme |-> "http", rest |-> "localhost:3000"],
                    <<"api", "sonarr", "series">>, outcome)[1] : outcome \in UrlopenOutcomes}
    \cup {SmokeRunnerException}

EnhancedOutcomePool ==
    {LiveResult(GetSonarrSeries, GetSonarrSeries.path, request(outcome)) :
        outcome \in UrlopenOutcomes}
    \cup {MockedResult(DeleteSabQueueItem), SkippedResult(RemoveRadarrMovie)}

OutcomePool(script) ==
    IF script = "api_smoke_test" THEN SmokeOutcomePool ELSE EnhancedOutcomePool

\* if args.endpoints_file: load_endpoints_from_file, sys.exit(2) on failure.
LoadEndpoints ==
    /\ main_pc = "load"
    /\ IF args.endpoints_file = "invalid"
       THEN main_pc' = "exited" /\ exit_code' = Some(2)
       ELSE main_pc' = "check" /\ UNCHANGED exit_code
    /\ UNCHANGED <<runner, args, processes, proc, server_started, main_results, raised>>
    /\ UNCHANGED <<runner_vars, triage_vars, catalog_vars, smoke_vars>>

\* if not is_server_up(...): start the dev server when auto_start is set
\* (Popen may raise: sys.exit(3)), otherwise only warn.
CheckServer ==
    /\ main_pc = "check"
    /\ \E up \in is_server_up(processes) :
          IF up \/ ~args.auto_start
          THEN /\ main_pc' = "run"
               /\ UNCHANGED <<processes, proc, server_started, exit_code>>
          ELSE \/ /\ processes' = [processes EXCEPT !.dev = "running"]
                  /\ proc' = Some("dev")
                  /\ server_started' = TRUE
                  /\ main_pc' = "wait"
                  /\ UNCHANGED exit_code
               \/ /\ main_pc' = "exited"
                  /\ exit_code' = Some(3)
                  /\ UNCHANGED <<processes, proc, server_started>>
    /\ UNCHANGED <<runner, args, main_results, raised>>
    /\ UNCHANGED <<runner_vars, triage_vars, catalog_vars, smoke_vars>>

\* The dev server process ends by itself (the command fails, the port is taken).
DevServerExits ==
    /\ main_pc \in {"wait", "run", "finally"}
    /\ processes.dev = "running"
    /\ processes' = [processes EXCEPT !.dev = "exited"]
    /\ UNCHANGED <<runner, args, main_pc, proc, server_started, main_results, raised,
                   exit_code>>
    /\ UNCHANGED <<runner_vars, triage_vars, catalog_vars, smoke_vars>>

\* wait_for_server: the server answers within start_timeout, or it does not:
\* if proc: stop_process(proc); sys.exit(3).
WaitForServer ==
    /\ main_pc = "wait"
    /\ \E up \in is_server_up(processes) :
          IF up
          THEN main_pc' = "run" /\ UNCHANGED <<processes, exit_code>>
          ELSE /\ processes' = IF proc # None THEN stop_process(proc[1], processes)
                               ELSE processes
               /\ main_pc' = "exited"
               /\ exit_code' = Some(3)
    /\ UNCHANGED <<runner, args, proc, server_started, main_results, raised>>
    /\ UNCHANGED <<runner_vars, triage_vars, catalog_vars, smoke_vars>>

\* The body of the try: the tests run and are reported (the enhanced runner
\* also builds the tester first and has the failures analysed afterwards), or
\* an exception leaves the body: the constructor on a malformed config file,
\* generate_reports on an output directory it cannot write, print_report on
\* a stdout that cannot encode its marks.
RunTests ==
    /\ main_pc = "run"
    /\ \/ /\ ~(runner = "enhanced_api_smoke_test" /\ args.config_file = "malformed")
          /\ main_results' \in SeqsUpTo(OutcomePool(runner), MaxOutcomes)
          /\ raised' \in BOOLEAN
       \/ /\ runner = "enhanced_api_smoke_test" /\ args.config_file = "malformed"
          /\ main_results' = <<>>
          /\ raised' = TRUE
    /\ main_pc' = "finally"
    /\ UNCHANGED <<runner, args, processes, proc, server_started, exit_code>>
    /\ UNCHANGED <<runner_vars, triage_vars, catalog_vars, smoke_vars>>

\* finally: stop the server the harness started; then sys.exit(exit_code), or
\* the exception goes on and the interpreter ends with status 1.
Finally ==
    /\ main_pc = "finally"
    /\ processes' = StopIfStarted(server_started, proc, processes)
    /\ exit_code' = IF raised THEN Some(1) ELSE Some(ExitCodeOf(runner, main_results))
    /\ main_pc' = "exited"
    /\ UNCHANGED <<runner, args, proc, server_started, main_results, raised>>
    /\ UNCHANGED <<runner_vars, triage_vars, catalog_vars, smoke_vars>>

\* main after parse_args: server_started = False, proc = None.
InitMain ==
    /\ RunnerIdle
    /\ TriageIdle
    /\ CatalogLoaded
    /\ SmokeIdle
    /\ runner \in Runners
    /\ args \in { [auto_start |-> a, endpoints_file |-> e, config_file |-> c] :
                    a \in BOOLEAN,
                    e \in (IF runner = "api_smoke_test" THEN {"", "valid", "invalid"} ELSE {""}),
                    c \in (IF runner = "api_smoke_test" THEN {""}
                           ELSE {"", "valid", "malformed"}) }
    /\ main_pc = IF runner = "api_smoke_test" THEN "load" ELSE "check"
    /\ processes \in { [dev |-> "none", external |-> x] : x \in {"none", "running"} }
    /\ proc = None
    /\ server_started = FALSE
    /\ main_results = <<>>
    /\ raised = FALSE
    /\ exit_code = None

MainStep == LoadEndpoints \/ CheckServer \/ WaitForServer \/ RunTests \/ Finally

NextMain == MainStep \/ DevServerExits

SpecMain == InitMain /\ [][NextMain]_vars

\* main is sequential code whose waits are bounded by timeouts: its next
\* step is always taken.
SpecMainFair == InitMain /\ [][NextMain]_vars /\ WF_vars(MainStep)

----------------------------------------------------------------------------
(* Claims about the runner *)

RequestsOf(i) == {call \in requests : call.case = i}

Finished(i) == fut[i].st \in {"done", "raised", "collected"}

Gated(i, mode) ==
    endpoint_configs[i].destructive /\ endpoint_configs[i].safe_mode = mode

\* The number of positions of sequence s whose element satisfies being equal to x.
Count(s, x) == Cardinality({p \in 1..Len(s) : s[p] = x})

\* C1: run_all_tests returns exactly one TestResult per EndpointConfig and the
\* i-th result is the one the i-th catalog case produced, whatever the
\* completion order.
C1_OneResultPerCaseInCatalogOrder ==
    phase = "returned" =>
        /\ Len(test_results) = Len(endpoint_configs)
        /\ \A i \in Cases : test_results[i] = CollectedResult(fut[i])

\* C2: with safe mode on, a destructive case with safe_mode "mock" makes no call
\* to the HTTP client (test request or identifier fetch) and its outcome is
\* SKIPPED with HTTP status 200 and a non-empty safety note.
C2_MockedCaseIsNeverSent ==
    \A i \in Cases :
        (safe_mode /\ Gated(i, "mock")) =>
            /\ RequestsOf(i) = {}
            /\ Finished(i) =>
                 /\ fut[i].res # None
                 /\ fut[i].res[1].status = "SKIPPED"
                 /\ fut[i].res[1].http_status = Some(200)
                 /\ fut[i].res[1].safety_notes # None
                 /\ Len(fut[i].res[1].safety_notes[1]) > 0

C2_Witness ==
    /\ phase = "returned"
    /\ safe_mode
    /\ \E i \in Cases : Gated(i, "mock") /\ test_results[i].status = "SKIPPED"
    /\ requests # {}

\* C3 as stated: a destructive case with safe_mode "skip" is SKIPPED with no
\* HTTP status and a safety note, and makes no network call.
C3_SkipCaseIsNeverSent ==
    \A i \in Cases :
        Gated(i, "skip") =>
            /\ RequestsOf(i) = {}
            /\ Finished(i) =>
                 /\ fut[i].res # None
                 /\ fut[i].res[1].status = "SKIPPED"
                 /\ fut[i].res[1].http_status = None
                 /\ fut[i].res[1].safety_notes # None
                 /\ Len(fut[i].res[1].safety_notes[1]) > 0

\* C3 amended: the same, when global safe mode is on.
C3_SkipCaseIsNeverSentInSafeMode ==
    safe_mode => C3_SkipCaseIsNeverSent

C3_Witness ==
    /\ phase = "returned"
    /\ safe_mode
    /\ \E i \in Cases : /\ Gated(i, "skip")
                        /\ \E p \in 1..Len(test_results) :
                              /\ test_results[p] = fut[i].res[1]
                              /\ test_results[p].http_status = None

\* C4: with safe mode off every case that run_test ran has called the HTTP
\* client with its own method, destructive or not and whatever its safe_mode,
\* and no outcome is SKIPPED.
C4_SafeModeOffRunsEverythingLive ==
    ~safe_mode =>
        /\ \A i \in Cases :
              Finished(i) =>
                 /\ \E call \in RequestsOf(i) :
                       call.purpose = "test" /\ call.method = endpoint_configs[i].method
                 /\ fut[i].res # None => fut[i].res[1].status # "SKIPPED"
        /\ \A p \in 1..Len(test_results) : test_results[p].status # "SKIPPED"

C4_Witness ==
    /\ phase = "returned"
    /\ ~safe_mode
    /\ \E i, j \in Cases : Gated(i, "mock") /\ Gated(j, "skip")

\* C5: an exception raised while running one case does not abort the batch:
\* every other case still has its own outcome in the returned list, the
\* failing case is one synthetic FAIL outcome tagged "Runner exception", and
\* the list has one outcome per catalog case.
C5_RunnerExceptionBecomesOneFail ==
    phase = "returned" =>
        /\ Len(test_results) = Len(endpoint_configs)
        /\ \A i \in Cases :
              Count(test_results, CollectedResult(fut[i]))
                 = Cardinality({j \in Cases : CollectedResult(fut[j]) = CollectedResult(fut[i])})
        /\ \A i \in Cases :
              fut[i].res = None =>
                 /\ CollectedResult(fut[i]).status = "FAIL"
                 /\ SubSeq(CollectedResult(fut[i]).error_message[1], 1, 2)
                       = <<"Runner", "exception:">>

C5_Witness ==
    /\ phase = "returned"
    /\ \E i, j \in Cases : fut[i].res = None /\ fut[j].res # None /\ fut[j].res[1].status = "PASS"

\* C6: once a real id is stored in the identifier cache for a service it is
\* never overwritten (first resolution wins) and no further fetch is issued
\* for that service, under any interleaving of the workers.
C6_FirstResolutionWins ==
    [][\A s \in CacheKeys :
          id_cache[s] # None =>
             /\ id_cache'[s] = id_cache[s]
             /\ ~\E call \in requests' \ requests :
                    call.purpose = "id" /\ FetchEndpoint(s) = Some(call.endpoint)]_vars

----------------------------------------------------------------------------
(* Claims about the triage *)

FailPositions(results) == {k \in 1..Len(results) : results[k].status = "FAIL"}

\* The issue_id analyze_results gives to the FAIL outcome at position k.
IssueIdOf(results, k) == Cardinality({j \in FailPositions(results) : j <= k})

IssuesOf(results, k) ==
    {p \in 1..Len(issues) :
        /\ issues[p].id = IssueIdOf(results, k)
        /\ issues[p].endpoint = results[k].endpoint
        /\ issues[p].http_status = results[k].http_status
        /\ Some(issues[p].error_message) = results[k].error_message}

\* Any capitalisation of a keyword, as a token of the text.
Mentions(text, spellings) == \E j \in 1..Len(text) : text[j] \in spellings

Timeout == {"timeout", "Timeout", "TIMEOUT"}
Connection == {"connection", "Connection", "CONNECTION"}
Queue == {"queue", "Queue", "QUEUE"}
Series == {"series", "Series", "SERIES"}
History == {"history", "History", "HISTORY"}

\* C7: a call of analyze_results on a new analyzer returns one Issue for each
\* FAIL outcome of the report and none for a PASS or SKIPPED outcome.
C7_IssueIffFail ==
    analyze_calls = 1 =>
        /\ analyzer_pc = "returned"
        /\ Len(issues) = Cardinality(FailPositions(analyzer_results))
        /\ \A k \in FailPositions(analyzer_results) :
              Cardinality(IssuesOf(analyzer_results, k)) = 1

\* The severity rules of the specification, first match wins; a null HTTP
\* status matches neither status rule.
RuleSeverity(result) ==
    IF result.http_status # None /\ result.http_status[1] >= 500 THEN "Critical"
    ELSE IF result.http_status # None /\ result.http_status[1] >= 400 THEN "High"
    ELSE IF Mentions(result.error_message[1], Timeout) THEN "Medium"
    ELSE IF Mentions(result.error_message[1], Connection) THEN "High"
    ELSE "Medium"

\* C8: every FAIL outcome gets the severity of the first matching rule: status
\* >= 500 Critical, status >= 400 High, "timeout" Medium, "connection" High,
\* otherwise Medium.
C8_SeverityByFirstMatchingRule ==
    analyze_calls = 1 =>
        \A k \in FailPositions(analyzer_results) :
            \E p \in IssuesOf(analyzer_results, k) :
                issues[p].severity = RuleSeverity(analyzer_results[k])

\* C9: a FAIL outcome with a null HTTP status becomes an Issue whose severity
\* comes from the error-message rules; with "connection refused" on an
\* endpoint without queue/series/history: High, score 90, P0.
C9_NullStatusTriagedByMessage ==
    analyze_calls = 1 =>
        \A k \in FailPositions(analyzer_results) :
            analyzer_results[k].http_status = None =>
                \E p \in IssuesOf(analyzer_results, k) :
                    /\ issues[p].severity = RuleSeverity(analyzer_results[k])
                    /\ (/\ analyzer_results[k].error_message = Some(<<"connection", "refused">>)
                        /\ analyzer_results[k].endpoint = PlainEndpoint)
                       => /\ issues[p].severity = "High"
                          /\ issues[p].priority_score = 90
                          /\ issues[p].priority = "P0 - Critical"

\* The score of the specification for an Issue, before the cap.
RuleScoreSum(issue) ==
    (CASE issue.severity = "Critical" -> 100
       [] issue.severity = "High" -> 75
       [] issue.severity = "Medium" -> 50
       [] issue.severity = "Low" -> 25)
    + (IF Mentions(issue.endpoint, Queue) THEN 20 ELSE 0)
    + (IF Mentions(issue.endpoint, Series) THEN 15 ELSE 0)
    + (IF Mentions(issue.endpoint, History) THEN 10 ELSE 0)
    + (IF Mentions(issue.error_message, Timeout) THEN 10 ELSE 0)
    + (IF Mentions(issue.error_message, Connection) THEN 15 ELSE 0)

\* C10: the priority score of every Issue is min(100, base of its severity
\* + 20 queue + 15 series + 10 history + 10 timeout + 15 connection), the
\* keywords matched case-insensitively, and lies within [0, 100].
C10_PriorityScoreIsCappedSum ==
    \A p \in 1..Len(issues) :
        /\ issues[p].priority_score
              = (IF RuleScoreSum(issues[p]) < 100 THEN RuleScoreSum(issues[p]) ELSE 100)
        /\ issues[p].priority_score >= 0
        /\ issues[p].priority_score <= 100

C10_Witness ==
    /\ analyzer_pc = "returned"
    /\ \E p, q \in 1..Len(issues) :
          /\ RuleScoreSum(issues[p]) > 100
          /\ issues[p].severity = "Medium"
          /\ issues[q].priority_score = 65
          /\ Mentions(issues[q].endpoint, {"Series"})

\* C11: the priority band of every Issue is the band of its own score (>= 80
\* P0, 60..79 P1, 40..59 P2, below 40 P3) and its due date lies the
\* turnaround of that band (1, 3, 7, 14 days) after the day of the analysis.
C11_BandAndDueDateFollowScore ==
    \A p \in 1..Len(issues) :
        LET score == issues[p].priority_score
        IN /\ score >= 80 => issues[p].priority = "P0 - Critical" /\ issues[p].due_date = 1
           /\ (score >= 60 /\ score <= 79)
                 => issues[p].priority = "P1 - High" /\ issues[p].due_date = 3
           /\ (score >= 40 /\ score <= 59)
                 => issues[p].priority = "P2 - Medium" /\ issues[p].due_date = 7
           /\ score < 40 => issues[p].priority = "P3 - Low" /\ issues[p].due_date = 14

C11_Witness ==
    /\ analyzer_pc = "returned"
    /\ \E p, q \in 1..Len(issues) :
          /\ issues[p].priority_score = 60 /\ issues[p].priority = "P1 - High"
          /\ issues[q].priority_score = 50 /\ issues[q].due_date = 7

\* C12: the list a call of analyze_results returns is sorted by priority
\* score, highest first, and on a new analyzer Issues of equal score keep the
\* order of their FAIL outcomes in the report (issue ids ascending).
C12_SortedDescendingStable ==
    analyzer_pc = "returned" =>
        \A p, q \in 1..Len(issues) :
            p < q =>
                /\ issues[p].priority_score >= issues[q].priority_score
                /\ (analyze_calls = 1 /\ issues[p].priority_score = issues[q].priority_score)
                      => issues[p].id < issues[q].id

C12_Witness ==
    /\ analyzer_pc = "returned"
    /\ analyze_calls = 1
    /\ Len(issues) = 2
    /\ issues[1].priority_score = issues[2].priority_score
    /\ issues[1].endpoint # issues[2].endpoint
    /\ issues[1].id = 1

\* What C13 compares of a list: ids, scores and bands, in order.
Compared(list) ==
    [p \in 1..Len(list) |-> <<list[p].id, list[p].priority_score, list[p].priority>>]

\* C13: two calls of analyze_results on the same report return identical
\* lists: same length, ids, scores, bands and order.
C13_AnalyzeTwiceSameList ==
    \A a, b \in 1..Len(analyze_returns) :
        Compared(analyze_returns[a]) = Compared(analyze_returns[b])

----------------------------------------------------------------------------
(* Claims about the catalog *)

\* A round of discovery whose response is a description: status 200 and a
\* JSON object with an openapi or swagger key.
Described(round) ==
    /\ round.response.status_code = Some(200)
    /\ json_loads(round.response.body) # None
    /\ json_loads(round.response.body)[1].keys \cap {"openapi", "swagger"} # {}

\* The operations of its description that yield a case, in document order:
\* the path x method pairs that are not deprecated.
Discovered(round) ==
    SelectSeq(json_loads(round.response.body)[1].paths,
              LAMBDA op : op.method \in HttpMethods /\ ~op.deprecated)

\* The classification rules of the specification.
RuleDestructive(op) ==
    \/ op.method \in {"delete", "DELETE"}
    \/ \E j \in 1..Len(op.path) : KeywordsIn(LowerToken(op.path[j])) \cap PathKeywords # {}
    \/ KeywordsIn(LowerToken(op.operationId)) \cap (PathKeywords \cup {"disable", "shutdown"}) # {}
    \/ \E t \in 1..Len(op.tags) : op.tags[t] \in {"destructive", "admin", "system",
                                                  "Destructive", "Admin", "System"}

\* C14: a discovered operation is classified destructive exactly when its
\* method is DELETE, or its path contains one of delete, remove, pause,
\* resume, cancel, stop, kill, reset, clear, or its operationId contains one
\* of those or disable or shutdown, or it is tagged destructive, admin or
\* system; an operation on /series/{id} whose operationId contains "delete"
\* is destructive.
C14_DestructiveIffAnyRule ==
    \A k \in 1..Len(discovery) :
        Described(discovery[k]) =>
            LET ops == Discovered(discovery[k])
                cases == discovery[k].configs
            IN /\ Len(cases) = Len(ops)
               /\ \A j \in 1..Len(ops) :
                     /\ cases[j].destructive <=> RuleDestructive(ops[j])
                     /\ (/\ ops[j].path = <<"series", "{id}">>
                         /\ "delete" \in KeywordsIn(LowerToken(ops[j].operationId)))
                        => cases[j].destructive

\* Failure of the fetch or of the parse, in the words of C15: transport
\* error, non-200 status, invalid JSON, no openapi/swagger key.
FetchFailed(response) ==
    \/ response.status_code = None
    \/ response.status_code # Some(200)
    \/ json_loads(response.body) = None
    \/ json_loads(response.body)[1].keys \cap {"openapi", "swagger"} = {}

\* The number of cases the rounds before round k added.
RECURSIVE AddedBefore(_)
AddedBefore(k) ==
    IF k <= 1 THEN 0 ELSE AddedBefore(k - 1) + Len(discovery[k - 1].configs)

CarriesNamespace(path, service) ==
    Len(path) >= 2 /\ path[1] = "api" /\ path[2] = ServiceSegment(service)

\* C16: the normalized path of every discovered operation starts with the API
\* namespace of its service exactly once: a path that carries it already
\* (the bare namespace included) is left untouched, the namespace is never
\* repeated, and normalizing the normalized path again changes nothing.
C16_NamespaceExactlyOnce ==
    \A k \in 1..Len(discovery) :
        Described(discovery[k]) =>
            LET service == discovery[k].service
                ops == Discovered(discovery[k])
                cases == discovery[k].configs
            IN \A j \in 1..Len(ops) :
                  /\ CarriesNamespace(cases[j].path, service)
                  /\ CarriesNamespace(ops[j].path, service) => cases[j].path = ops[j].path
                  /\ ~CarriesNamespace(SubSeq(cases[j].path, 3, Len(cases[j].path)), service)
                  /\ PrefixedPath(service, FullPath(service, <<>>, cases[j].path))
                        = cases[j].path

\* C17: with an explicit catalog file configured that is missing or cannot be
\* read, load_endpoint_configs raises: no catalog is loaded, discovered or
\* built in, and no request is made.
C17_MissingFileFailsHard ==
    (config_file = Some("missing") \/ config_file = Some("unreadable")) =>
        /\ loader_pc \in {"start", "raised"}
        /\ endpoint_configs = <<>>
        /\ mixed_configs = <<>>
        /\ requests = {}

\* C18: in a result of HTTPClient.request the error is non-null exactly when
\* the status code is null: an HTTP error response has a status code and no
\* error, a transport failure has no status code and an error string.
C18_ErrorIffNoStatus ==
    \A k \in 1..Len(discovery) :
        (discovery[k].response.error # None) <=> (discovery[k].response.status_code = None)

----------------------------------------------------------------------------
(* Claims about the outcome of a live request *)

\* urlopen failed before any HTTP response: DNS, connect, refused, timeout.
TransportError(outcome) == outcome.kind \in {"URLError", "Exception"}

\* C19: a case that was sent is PASS only if its response met every
\* expectation (the expected status, a JSON body, the time limit) and there
\* was no transport error; a response without transport error that misses an
\* expectation gives FAIL, with that expectation recorded as false in the
\* validation results.
C19_PassOnlyIfAllExpectationsHold ==
    \A i \in Cases :
        fut[i].outcome # None =>
            LET outcome == fut[i].outcome[1]
                result == fut[i].res[1]
                status_ok == outcome.code = endpoint_configs[i].expected_status
                json_ok == outcome.body = "json"
            IN /\ result.status = "PASS" =>
                     /\ ~TransportError(outcome)
                     /\ status_ok /\ json_ok
                     /\ <<"response_time", TRUE>> \in result.validation_results
                     /\ \A item \in result.validation_results : item[2]
               /\ (~TransportError(outcome) /\ ~status_ok) =>
                     /\ result.status = "FAIL"
                     /\ <<"status_code", FALSE>> \in result.validation_results
               /\ (~TransportError(outcome) /\ ~json_ok) =>
                     /\ result.status = "FAIL"
                     /\ <<"json_format", FALSE>> \in result.validation_results

C19_Witness ==
    /\ phase = "returned"
    /\ \E i, j \in Cases :
          /\ fut[i].outcome # None /\ fut[i].res[1].status = "PASS"
          /\ fut[j].outcome # None /\ fut[j].outcome[1].kind = "ok"
          /\ fut[j].res[1].status = "FAIL"
          /\ fut[j].res[1].error_message = Some(<<"Validation", "failed">>)

\* C20: a transport error on one case makes that case's outcome FAIL with a
\* null HTTP status, and the returned list still holds the outcome of every
\* other case of the batch.
C20_TransportErrorFailsOneCase ==
    \A i \in Cases :
        (fut[i].outcome # None /\ TransportError(fut[i].outcome[1])) =>
            /\ fut[i].res[1].status = "FAIL"
            /\ fut[i].res[1].http_status = None
            /\ fut[i].res[1].error_message # None
            /\ phase = "returned" =>
                  /\ Len(test_results) = Len(endpoint_configs)
                  /\ \A j \in Cases :
                        \E p \in 1..Len(test_results) : test_results[p] = CollectedResult(fut[j])

C20_Witness ==
    /\ phase = "returned"
    /\ \E i, j \in Cases :
          /\ fut[i].outcome # None /\ TransportError(fut[i].outcome[1])
          /\ fut[j].outcome # None /\ fut[j].res[1].status = "PASS"
          /\ \E p, q \in 1..Len(test_results) :
                p # q /\ test_results[p] = fut[i].res[1] /\ test_results[q] = fut[j].res[1]

----------------------------------------------------------------------------
(* Claims about fallback identifiers, effort, the safety policy of the       *)
(* catalogs, the identifier cache and the two main functions                 *)

\* The case at i was sent with a static fallback id: it has a test_
\* placeholder, it got a live result, and no real id is in the path sent.
UsedFakeId(i) ==
    /\ fut[i].res # None
    /\ fut[i].outcome # None
    /\ \E k \in 1..Len(endpoint_configs[i].path_params) :
          StartsWithTest(endpoint_configs[i].path_params[k].value)
    /\ \A j \in 1..Len(fut[i].res[1].endpoint) : fut[i].res[1].endpoint[j] \notin RealIds

\* C21: when a placeholder value carries the test_ prefix and the resolver
\* has no real id for the service, the path sent carries the placeholder
\* literal of the case and the outcome records the use of a fake id in its
\* safety note.
C21_FakeIdIsRecordedInSafetyNote ==
    \A i \in Cases :
        UsedFakeId(i) =>
            /\ \A k \in 1..Len(endpoint_configs[i].path_params) :
                  \E j \in 1..Len(fut[i].res[1].endpoint) :
                      fut[i].res[1].endpoint[j] = endpoint_configs[i].path_params[k].value
            /\ fut[i].res[1].safety_notes # None

\* Base hours of a severity, in tenths of an hour.
RuleBaseEffort(severity) ==
    CASE severity = "Critical" -> 80
      [] severity = "High" -> 40
      [] severity = "Medium" -> 20
      [] severity = "Low" -> 10

\* C22: the estimated effort of every Issue is the base hours of its severity
\* (Critical 8, High 4, Medium 2, Low 1) times 1.2 if the error mentions
\* "timeout", otherwise times 1.5 if it mentions "connection", otherwise
\* unchanged; a message mentioning both gets the 1.2 only.
C22_EffortIsBaseTimesOneMultiplier ==
    \A p \in 1..Len(issues) :
        LET base == RuleBaseEffort(issues[p].severity)
        IN /\ Mentions(issues[p].error_message, Timeout)
                => issues[p].estimated_effort * 10 = base * 12
           /\ (~Mentions(issues[p].error_message, Timeout)
               /\ Mentions(issues[p].error_message, Connection))
                => issues[p].estimated_effort * 10 = base * 15
           /\ (~Mentions(issues[p].error_message, Timeout)
               /\ ~Mentions(issues[p].error_message, Connection))
                => issues[p].estimated_effort = base

C22_Witness ==
    /\ analyze_calls = 1
    /\ \E p, q \in 1..Len(issues) :
          /\ Mentions(issues[p].error_message, Timeout)
          /\ Mentions(issues[p].error_message, Connection)
          /\ issues[p].severity = "Critical"
          /\ issues[p].estimated_effort = 96
          /\ issues[q].error_message = <<"connection", "refused">>
          /\ issues[q].severity = "High"
          /\ issues[q].estimated_effort = 60

\* C28: every Issue has severity Critical, High or Medium (never Low), a
\* priority score of at least 50 and a band of P0, P1 or P2 (never P3); every
\* Critical Issue has score 100 and band P0.
C28_NoLowSeverityNoP3 ==
    \A p \in 1..Len(issues) :
        /\ issues[p].severity \in {"Critical", "High", "Medium"}
        /\ issues[p].priority_score >= 50
        /\ issues[p].priority \in {"P0 - Critical", "P1 - High", "P2 - Medium"}
        /\ issues[p].severity = "Critical"
              => issues[p].priority_score = 100 /\ issues[p].priority = "P0 - Critical"

C28_Witness ==
    /\ analyze_calls = 1
    /\ \E p, q \in 1..Len(issues) :
          /\ issues[p].severity = "Critical" /\ issues[p].priority_score = 100
          /\ issues[q].severity = "Medium" /\ issues[q].priority_score = 50
          /\ issues[q].priority = "P2 - Medium"

\* The service of the case at i, and whether its path carries the token id.
ServiceOf(i) == extract_service_from_path(endpoint_configs[i].path)

PathHas(path, id) == \E j \in 1..Len(path) : path[j] = id

\* C29: under every interleaving of the workers the identifier cache of a
\* service changes only in a step in which a worker's fetch for that service
\* returned a real id, and then to that id; a step that hands a static
\* fallback id to the caller leaves the cache alone, and a call that finds no
\* cached id for its service goes to the fetch again.
C29_CacheHoldsOnlyFetchedIds ==
    [][
        /\ \A s \in CacheKeys :
              id_cache'[s] # id_cache[s] =>
                 /\ id_cache'[s] # None
                 /\ id_cache'[s][1] \in RealIds
                 /\ ~StartsWithTest(id_cache'[s][1])
                 /\ \E w \in Cases :
                       /\ fut[w].st = "fetch"
                       /\ ServiceOf(w) = s
                       /\ FetchEndpoint(s) # None
                       /\ HttpCall(w, "id", "GET", FetchEndpoint(s)[1]) \in requests'
                       /\ PathHas(fut'[w].path, id_cache'[s][1])
        /\ \A i \in Cases :
              (fut[i].st = "fetch" /\ fut'[i].st # "fetch"
               /\ PathHas(fut'[i].path, FallbackId(ServiceOf(i))))
                 => id_cache' = id_cache
        /\ \A j \in Cases :
              (/\ fut[j].st = "queued" /\ fut'[j].st # "queued"
               /\ SafetyGate(safe_mode, endpoint_configs[j]) = None
               /\ Len(endpoint_configs[j].path_params) > 0
               /\ StartsWithTest(endpoint_configs[j].path_params[1].value)
               /\ id_cache[ServiceOf(j)] = None)
                 => fut'[j].st = "fetch"
    ]_vars

\* A fetch failed for one case, which was sent with the fallback id, and the
\* fetch was made again for a later case of the same service, whose real id
\* is the one the cache holds.
C29_Witness ==
    \E i, j \in Cases :
        /\ i < j
        /\ ServiceOf(i) = "sabnzbd" /\ ServiceOf(j) = "sabnzbd"
        /\ fut[i].res # None /\ PathHas(fut[i].res[1].endpoint, "test_nzo_123")
        /\ fut[j].res # None /\ id_cache["sabnzbd"] # None
        /\ PathHas(fut[j].res[1].endpoint, id_cache["sabnzbd"][1])
        /\ {HttpCall(i, "id", "GET", <<"api", "sabnzbd", "queue">>),
            HttpCall(j, "id", "GET", <<"api", "sabnzbd", "queue">>)} \subseteq requests

\* C25: with safe mode on, a destructive case is sent to the server only when
\* its safe_mode is exactly "allow"; with any other value ("mock", "skip" or
\* another string loaded from a catalog file) no request is made for it.
C25_OnlyAllowRunsLive ==
    safe_mode =>
        \A i \in Cases :
            (endpoint_configs[i].destructive /\ endpoint_configs[i].safe_mode # "allow")
                => RequestsOf(i) = {}

\* C26: every case generated from a description has safe_mode "mock" exactly
\* when it is classified destructive and "allow" otherwise; every DELETE is
\* classified destructive; and with safe mode on run_test returns the mocked
\* result of such a case at its gate, before any request.
C26_DiscoveredDestructiveIsMocked ==
    \A k \in 1..Len(discovery) :
        Described(discovery[k]) =>
            \A j \in 1..Len(discovery[k].configs) :
                LET config == discovery[k].configs[j]
                IN /\ config.safe_mode = (IF config.destructive THEN "mock" ELSE "allow")
                   /\ config.method = "DELETE" => config.destructive
                   /\ (safe_mode /\ config.destructive) =>
                         /\ SafetyGate(safe_mode, config) # None
                         /\ SafetyGate(safe_mode, config)[1].status = "SKIPPED"
                         /\ SafetyGate(safe_mode, config)[1].safety_notes
                               = Some(<<"Mocked", "in", "safe", "mode">>)

C26_Witness ==
    /\ loader_pc = "loaded"
    /\ safe_mode
    /\ \E k \in 1..Len(discovery) :
          /\ Described(discovery[k])
          /\ \E a, b, c \in 1..Len(discovery[k].configs) :
                /\ discovery[k].configs[a].method = "DELETE"
                /\ discovery[k].configs[a].safe_mode = "mock"
                /\ discovery[k].configs[b].method = "POST"
                /\ discovery[k].configs[b].destructive
                /\ discovery[k].configs[b].safe_mode = "mock"
                /\ ~discovery[k].configs[c].destructive
                /\ discovery[k].configs[c].safe_mode = "allow"
                /\ discovery[k].configs[a] \in {endpoint_configs[n] : n \in 1..Len(endpoint_configs)}

DefaultCases ==
    {get_default_endpoint_configs[k] : k \in 1..Len(get_default_endpoint_configs)}

\* C27: in the built-in default catalog every case whose method is not GET
\* is marked destructive with safe_mode "mock" and is answered at the gate of
\* run_test when safe mode is on; a run of cases of the default catalog with
\* safe mode on makes GET requests only, the test requests and the requests
\* of the identifier fetch alike.
C27_DefaultCatalogSendsOnlyGet ==
    /\ \A config \in DefaultCases :
          config.method # "GET" =>
             /\ config.destructive
             /\ config.safe_mode = "mock"
             /\ SafetyGate(TRUE, config) # None
    /\ (safe_mode /\ \A i \in Cases : endpoint_configs[i] \in DefaultCases)
          => \A call \in requests : call.method = "GET"

C27_Witness ==
    /\ safe_mode
    /\ phase = "returned"
    /\ \A i \in Cases : endpoint_configs[i] \in DefaultCases
    /\ \E i, j \in Cases :
          /\ endpoint_configs[i].method = "DELETE"
          /\ fut[i].res # None /\ fut[i].res[1].status = "SKIPPED"
          /\ RequestsOf(i) = {}
          /\ \E call \in RequestsOf(j) : call.purpose = "id"
          /\ \E call \in RequestsOf(j) : call.purpose = "test"

\* The position of the first occurrence of ep in eps.
FirstIndex(eps, ep) ==
    CHOOSE i \in 1..Len(eps) : eps[i] = ep /\ \A j \in 1..(i - 1) : eps[j] # ep

\* C24: run_tests removes duplicate endpoints keeping first occurrences and
\* returns exactly one TestResult per unique endpoint, in the order in which
\* the unique endpoints appeared in the input, whatever the order in which
\* the workers complete.
C24_OneResultPerUniqueEndpointInOrder ==
    smoke_pc = "returned" =>
        /\ {unique_endpoints[k] : k \in 1..Len(unique_endpoints)}
              = {smoke_endpoints[i] : i \in 1..Len(smoke_endpoints)}
        /\ \A a, b \in 1..Len(unique_endpoints) :
              a < b => FirstIndex(smoke_endpoints, unique_endpoints[a])
                          < FirstIndex(smoke_endpoints, unique_endpoints[b])
        /\ Len(smoke_results) = Len(unique_endpoints)
        /\ \A k \in 1..Len(unique_endpoints) : smoke_results[k].endpoint = unique_endpoints[k]

SomeFail(list) == \E k \in 1..Len(list) : list[k].status = "FAIL"

\* C23 as stated: a runner exits with a non-zero code exactly when at least
\* one outcome has status FAIL, and then with 1; it exits 0 when no outcome
\* failed.
C23_NonZeroExitIffSomeFail ==
    main_pc = "exited" =>
        /\ exit_code # Some(0) <=> SomeFail(main_results)
        /\ exit_code # Some(0) => exit_code = Some(1)

\* C23 amended: a runner that reaches its final sys.exit(exit_code) exits 1
\* when at least one outcome is FAIL and 0 otherwise, SKIPPED outcomes of the
\* enhanced runner not counting; the exits 2 (endpoints file) and 3 (dev
\* server not started or not ready) happen before any outcome exists; and an
\* exception leaving the try block ends the script with status 1.
C23_ExitCodeOfCompletedRun ==
    main_pc = "exited" =>
        /\ exit_code \in {Some(0), Some(1), Some(2), Some(3)}
        /\ (exit_code \in {Some(2), Some(3)}) => (main_results = <<>> /\ ~raised)
        /\ (exit_code = Some(2)) => (runner = "api_smoke_test" /\ args.endpoints_file = "invalid")
        /\ (exit_code = Some(3)) => args.auto_start
        /\ raised => exit_code = Some(1)
        /\ (exit_code \in {Some(0), Some(1)} /\ ~raised) =>
              (exit_code = Some(1) <=> SomeFail(main_results))

C23_Witness ==
    /\ main_pc = "exited"
    /\ runner = "enhanced_api_smoke_test"
    /\ ~raised
    /\ exit_code = Some(0)
    /\ \E k \in 1..Len(main_results) : main_results[k].status = "SKIPPED"
    /\ \E k \in 1..Len(main_results) : main_results[k].status = "PASS"

\* C30: a server that main started is stopped on every path that leaves main
\* after the start (readiness timeout, normal completion, failed tests, an
\* exception during the run), and main does leave; a server that ran before
\* and was not started by main is never stopped.
C30_StartedServerIsStopped ==
    /\ []((main_pc = "exited" /\ server_started) => processes.dev \in {"terminated", "exited"})
    /\ [](~server_started => (proc = None /\ processes.dev = "none"))
    /\ [](processes.external # "terminated")
    /\ (server_started /\ processes.dev = "running")
          ~> (main_pc = "exited" /\ processes.dev # "running")

C30_Witness ==
    /\ main_pc = "exited"
    /\ server_started
    /\ raised
    /\ processes = [dev |-> "terminated", external |-> "running"]
====
